---------------------------- MODULE Spec2Model ----------------------------
(***************************************************************************)
(* Model of the comprobante extraction API (src/main.py).                  *)
(*                                                                         *)
(* Strings are sequences of one-character strings, so that the regular     *)
(* expressions of buscar_numero_documento, the zero stripping and the      *)
(* f-string formatting are computed character by character.                *)
(*                                                                         *)
(* and of the valor NETO extraction API (src/main2.py).                    *)
(*                                                                         *)
(* The specifications share the variables:                                 *)
(*   SpecBuscar   buscar_numero_documento applied to one OCR text          *)
(*   SpecExtract  extract_documento_from_image applied to one crop         *)
(*   SpecDetect   detect_comprobantes_in_image applied to one page image   *)
(*   SpecRepeat   successive calls of detect_comprobantes_in_image         *)
(*   Spec         one request to run_image_extractor                       *)
(*   SpecNeto     buscar_valor_neto applied to one OCR text                *)
(*   SpecValor    one request to extract_valor_neto                        *)
(*   SpecLoop     concurrent requests to the one server process            *)
(***************************************************************************)
EXTENDS Integers, Sequences, FiniteSets, TLC

VARIABLES
    pc,                 \* "call" before the function of the specification is
                        \* called and "return" after it; in Spec, the place
                        \* of run_image_extractor in its code
    DEPENDENCIES_OK,    \* the module's global: cv2, numpy, PIL, pdfium imported
    OCR_ENGINE,         \* the module's global, as initialize_ocr left it
    texto,              \* buscar_numero_documento, buscar_valor_neto: the
                        \* argument
    doc,                \* buscar_numero_documento: the returned value
    valor_neto,         \* buscar_valor_neto: the returned value
    crop,               \* extract_documento_from_image: img, page_idx, comp_idx
    ext,                \* extract_documento_from_image: the outcome
    scale,              \* extract_documento_from_image: its local scale at
                        \* the end, <<>> when the ROI is not resized
    det,                \* detect_comprobantes_in_image: page_img, min_area, page_idx
    adaptive_min_area,  \* detect_comprobantes_in_image: its local, at the return
    comprobantes,       \* detect_comprobantes_in_image: the returned list
    log,                \* SpecRepeat: the calls of detect_comprobantes_in_image
                        \* so far, each with its arguments and returned list
    request,            \* run_image_extractor: file, min_area, individual_comprobantes
    session_dir,        \* whether OUTPUT_DIR / session_id exists
    temp_file,          \* whether UPLOAD_DIR / {session_id}_{filename} exists
    files,              \* the files of the session directory: name -> image
    pdf_len,            \* len(pdf) of the opened document
    pdf_page_idx,       \* page_idx, the loop variable over the pages of the pdf
    pages,              \* the page images rendered or read so far
    renders,            \* the page.render calls so far: page and scale
    extracted_comprobantes,
    resultados,         \* process_pdf_for_neto: the page results so far
    response,           \* what the caller gets
    loop,               \* SpecLoop: the requests whose handler has started
                        \* and not returned
    handlers,           \* SpecLoop: the place of each request's handler
    ocr_in_progress     \* SpecLoop: the requests with an OCR call that has
                        \* started and not returned

globals == <<DEPENDENCIES_OK, OCR_ENGINE>>
buscarVars == <<texto, doc, valor_neto>>
extractVars == <<crop, ext, scale>>
detectVars == <<det, adaptive_min_area, comprobantes, log>>
sessionVars == <<session_dir, temp_file, files>>
jobVars == <<request, sessionVars, pdf_len, pdf_page_idx, pages, renders,
             extracted_comprobantes, resultados, response>>
loopVars == <<loop, handlers, ocr_in_progress>>

vars == <<pc, globals, buscarVars, extractVars, detectVars, jobVars, loopVars>>

(***************************************************************************)
(* Values                                                                  *)
(***************************************************************************)
\* Python's None (no string is this one-element sequence: characters are
\* one-character strings).
None == <<"<None>">>

\* No value yet: the function has not been called.
Pending == <<"<pending>">>

\* An exception: the outcome of a call that raises, and what an OCR call that
\* raises gives in place of a text.
Raised == <<"<raise>">>

Max(S) == CHOOSE m \in S : \A n \in S : n <= m

Digits == {"0", "1", "2", "3", "4", "5", "6", "7", "8", "9"}

\* \s of the re module, as far as the texts of the model go.
Whitespace == {" ", "\n", "\t"}

\* [a-z] under re.IGNORECASE, as far as the texts of the model go.
Letters == {"d", "o", "c", "u", "m", "e", "n", "t", "s", "x",
            "D", "O", "C", "U", "M", "E", "N", "T"}

\* re.IGNORECASE: a character and a pattern character are compared lowered.
Lower(c) ==
    CASE c = "D" -> "d" [] c = "O" -> "o" [] c = "C" -> "c" [] c = "U" -> "u"
      [] c = "M" -> "m" [] c = "E" -> "e" [] c = "N" -> "n" [] c = "T" -> "t"
      [] OTHER -> c

(***************************************************************************)
(* buscar_numero_documento (src/main.py 229-255)                           *)
(***************************************************************************)
\* ' '.join(texto.split()): runs of whitespace become one space, leading and
\* trailing whitespace goes.
Clean(s) ==
    LET F[i \in 0..Len(s)] ==
            IF i = 0 THEN <<>>
            ELSE IF s[i] \in Whitespace THEN F[i-1]
            ELSE IF i > 1 /\ s[i-1] \in Whitespace /\ F[i-1] # <<>>
                 THEN F[i-1] \o <<" ", s[i]>>
                 ELSE Append(F[i-1], s[i])
    IN  F[Len(s)]

\* The number of consecutive characters of s from position i on that are in C
\* (a greedy  [C]*  of the re module; the classes of one pattern are disjoint,
\* so backtracking never finds a match the greedy choice misses).
Span(s, i, C) ==
    Max({j \in i..(Len(s) + 1) : \A k \in i..(j - 1) : s[k] \in C}) - i

\* The acceptance threshold: len(num) >= 6.
MinNumLen == 6

\* The patterns, in the order of the list: lit is the literal prefix (lowered),
\* letters says whether [a-z]* follows it, sep whether [:\s]* follows, and the
\* group is (\d{lo,hi}).
patterns == <<
    [lit |-> <<"d","o","c","u","m","e","n","t","o">>, letters |-> FALSE,
     sep |-> TRUE, lo |-> 8, hi |-> 15],
    [lit |-> <<"o","c","u","m","e","n","t","o">>, letters |-> FALSE,
     sep |-> TRUE, lo |-> 8, hi |-> 15],
    [lit |-> <<"u","m","e","n","t","o">>, letters |-> FALSE,
     sep |-> TRUE, lo |-> 8, hi |-> 15],
    [lit |-> <<"d","o","c">>, letters |-> TRUE,
     sep |-> TRUE, lo |-> 8, hi |-> 15],
    [lit |-> <<>>, letters |-> FALSE, sep |-> FALSE, lo |-> 10, hi |-> 15],
    [lit |-> <<>>, letters |-> FALSE, sep |-> FALSE, lo |-> 8, hi |-> 9] >>

\* One attempt of the regular expression p at position i of s: whether it
\* matches, the group it captures and the position after the match.
MatchAt(p, s, i) ==
    LET n    == Len(p.lit)
        lit  == i + n - 1 <= Len(s)
                /\ \A k \in 1..n : Lower(s[i + k - 1]) = p.lit[k]
        j1   == i + n
        j2   == IF p.letters THEN j1 + Span(s, j1, Letters) ELSE j1
        j3   == IF p.sep THEN j2 + Span(s, j2, Whitespace \cup {":"}) ELSE j2
        run  == Span(s, j3, Digits)
        take == IF run > p.hi THEN p.hi ELSE run
    IN  IF lit /\ run >= p.lo
        THEN [ok |-> TRUE, grp |-> SubSeq(s, j3, j3 + take - 1), end |-> j3 + take]
        ELSE [ok |-> FALSE, grp |-> <<>>, end |-> i]

\* re.findall(p, s, re.IGNORECASE): the groups of the leftmost, non-overlapping
\* matches, scanning from position i.
RECURSIVE FindAllFrom(_, _, _)
FindAllFrom(p, s, i) ==
    IF i > Len(s) THEN <<>>
    ELSE LET m == MatchAt(p, s, i)
         IN  IF m.ok THEN <<m.grp>> \o FindAllFrom(p, s, m.end)
             ELSE FindAllFrom(p, s, i + 1)

FindAll(p, s) == FindAllFrom(p, s, 1)

\* raw.lstrip('0') or '0'
Lstrip0(raw) ==
    LET z == Span(raw, 1, {"0"})
    IN  IF z = Len(raw) THEN <<"0">> ELSE SubSeq(raw, z + 1, Len(raw))

\* Accepted with the length test dropped: any number is accepted.
Accepted_Any(num) == Len(num) >= 1

\* if len(num) >= 6
Accepted(num) == Len(num) >= MinNumLen

\* The loop over the patterns, from the k-th on: the first match of a pattern
\* is the only one looked at.
RECURSIVE TryPatterns(_, _)
TryPatterns(t, k) ==
    IF k > Len(patterns) THEN None
    ELSE LET matches == FindAll(patterns[k], t)
         IN  IF matches # <<>> /\ Accepted(Lstrip0(matches[1]))
             THEN Lstrip0(matches[1])
             ELSE TryPatterns(t, k + 1)

buscar_numero_documento(t) ==
    IF t = <<>> THEN None ELSE TryPatterns(Clean(t), 1)

(***************************************************************************)
(* initialize_ocr (src/main.py 78-105)                                     *)
(***************************************************************************)
\* The values initialize_ocr can leave in OCR_ENGINE.
Engines == {"none", "pytesseract", "easyocr"}

(***************************************************************************)
(* extract_documento_with_ocr (src/main.py 257-283)                        *)
(*                                                                         *)
(* An image carries what the OCR backend answers on it: ocr[k] is the text *)
(* of the k-th call on it, or Raised when that call raises.                *)
(***************************************************************************)
\* configs = ['--psm 6', '--psm 7', '--psm 8', '--psm 13']
configs == <<"--psm 6", "--psm 7", "--psm 8", "--psm 13">>

\* The loop with the try around the whole of it: a call that raises ends it.
RECURSIVE TesseractFrom_StopOnRaise(_, _)
TesseractFrom_StopOnRaise(ocr, k) ==
    IF k > Len(configs) \/ ocr[k] = Raised THEN None
    ELSE IF buscar_numero_documento(ocr[k]) # None
         THEN buscar_numero_documento(ocr[k])
         ELSE TesseractFrom_StopOnRaise(ocr, k + 1)

\* The pytesseract loop from the k-th configuration on: a call that raises
\* and a text without a number go on to the next configuration.
RECURSIVE TesseractFrom(_, _)
TesseractFrom(ocr, k) ==
    IF k > Len(configs) THEN None
    ELSE IF ocr[k] # Raised /\ buscar_numero_documento(ocr[k]) # None
         THEN buscar_numero_documento(ocr[k])
         ELSE TesseractFrom(ocr, k + 1)

\* The configurations with which that loop calls pytesseract.image_to_string,
\* in the order of the calls.
RECURSIVE TesseractCalls(_, _)
TesseractCalls(ocr, k) ==
    IF k > Len(configs) THEN <<>>
    ELSE IF ocr[k] # Raised /\ buscar_numero_documento(ocr[k]) # None
         THEN <<configs[k]>>
         ELSE <<configs[k]>> \o TesseractCalls(ocr, k + 1)

extract_documento_with_ocr(ocr, engine) ==
    CASE engine = "pytesseract" -> TesseractFrom(ocr, 1)
      [] engine = "easyocr" ->
            IF ocr[1] = Raised THEN None ELSE buscar_numero_documento(ocr[1])
      [] OTHER -> None

(***************************************************************************)
(* extract_documento_from_image (src/main.py 285-321)                      *)
(***************************************************************************)
\* The heights h up to 1500 for which the float product h * 0.35, truncated,
\* is one below floor(35 h / 100) (h * 0.60 never is, up to 3000).
Below035 == {180, 340, 360, 660, 680, 700, 720, 1300, 1320, 1340, 1360, 1380,
             1400, 1420, 1440, 1460}

\* The same for h * 0.70.
Below070 == {90, 170, 180, 330, 340, 350, 360, 650, 660, 670, 680, 690, 700,
             710, 720, 730, 1290, 1300, 1310, 1320, 1330, 1340, 1350, 1360,
             1370, 1380, 1390, 1400, 1410, 1420, 1430, 1440, 1450, 1460}

\* x0, y0 = int(w * 0.60), int(h * 0.35);  x1, y1 = w, int(h * 0.70)
RoiX0(w) == (w * 60) \div 100
RoiY0(h) == ((h * 35) \div 100) - (IF h \in Below035 THEN 1 ELSE 0)
RoiY1(h) == ((h * 70) \div 100) - (IF h \in Below070 THEN 1 ELSE 0)

\* roi = gray[y0:y1, x0:x1]: its shape, rows first; an empty slice has no rows.
RoiShape(w, h) ==
    [rows |-> IF RoiY1(h) > RoiY0(h) THEN RoiY1(h) - RoiY0(h) ELSE 0,
     cols |-> IF w > RoiX0(w) THEN w - RoiX0(w) ELSE 0]

\* roi.size
RoiSize(w, h) == RoiShape(w, h).rows * RoiShape(w, h).cols

\* if roi.shape[1] < 300: scale = 300 // roi.shape[1] + 1. The local scale
\* when the function ends: <<>> when it was never assigned (an empty ROI, or
\* one of 300 columns or more), else the factor.
ResizeScale(w, h) ==
    IF RoiSize(w, h) = 0 THEN <<>>
    ELSE IF RoiShape(w, h).cols < 300
    THEN <<(300 \div RoiShape(w, h).cols) + 1>>
    ELSE <<>>

\* The decimal digits of n >= 0.
RECURSIVE DecDigits(_)
DecDigits(n) ==
    LET d == <<"0", "1", "2", "3", "4", "5", "6", "7", "8", "9">>[(n % 10) + 1]
    IN  IF n < 10 THEN <<d>> ELSE Append(DecDigits(n \div 10), d)

\* {n:02d} without the zero fill: {n:d}.
Format02d_NoFill(n) == DecDigits(n)

\* {n:02d}: at least two digits, filled with zeros on the left.
Format02d(n) == IF n < 10 THEN <<"0">> \o DecDigits(n) ELSE DecDigits(n)

\* The fallback without the page: f"PAG01_COMP{comp_idx:02d}".
FallbackId_NoPage(page_idx, comp_idx) ==
    <<"P", "A", "G", "0", "1", "_", "C", "O", "M", "P">> \o Format02d(comp_idx)

\* The fallback left out: the function ends without a return.
FallbackId_None(page_idx, comp_idx) == None

\* f"PAG{page_idx:02d}_COMP{comp_idx:02d}"
FallbackId(page_idx, comp_idx) ==
    <<"P", "A", "G">> \o Format02d(page_idx) \o
    <<"_", "C", "O", "M", "P">> \o Format02d(comp_idx)

\* The whole function: img is [w, h, prep, ocr], prep saying whether the
\* resize / CLAHE / threshold steps raise on this image.
extract_documento_from_image(img, engine, page_idx, comp_idx) ==
    IF RoiSize(img.w, img.h) = 0 THEN None
    ELSE IF img.prep = "raise" THEN Raised
    ELSE LET d == extract_documento_with_ocr(img.ocr, engine)
         IN  IF d # None THEN d ELSE FallbackId(page_idx, comp_idx)

(***************************************************************************)
(* detect_comprobantes_in_image (src/main.py 325-437)                      *)
(*                                                                         *)
(* A page image is [decoded, w, h, fail, contours]: decoded is FALSE for   *)
(* the None that cv2.imread gives for a file it cannot decode, fail says   *)
(* whether the blur / threshold / closing / findContours steps raise, and  *)
(* contours is what cv2.findContours gives, each contour with its          *)
(* contourArea (area), the boundingRect of its approximation (x, y, w, h)  *)
(* and the content of the page under that rectangle (prep, ocr).           *)
(***************************************************************************)
\* The correction with  >=  in place of  > .
AdaptiveMinArea_Geq(min_area, img_width, img_height) ==
    LET img_area == img_height * img_width
    IN  IF min_area * 20 >= img_area
        THEN (IF img_area \div 50 > 5000 THEN img_area \div 50 ELSE 5000)
        ELSE min_area

\* if min_area > img_area / 20: max(5000, img_area // 50), else min_area
AdaptiveMinArea(min_area, img_width, img_height) ==
    LET img_area == img_height * img_width
    IN  IF min_area * 20 > img_area
        THEN (IF img_area \div 50 > 5000 THEN img_area \div 50 ELSE 5000)
        ELSE min_area

\* The filters without the two on the aspect ratio.
AcceptContour_NoRatio(cnt, min) ==
    /\ ~(cnt.area < min)
    /\ cnt.w > 50 /\ cnt.h > 50
    /\ cnt.area > min

\* The filters of the loop over the contours: area < adaptive_min_area is
\* skipped, then 0.3 <= w / h <= 3.0, w > 50, h > 50, area > adaptive_min_area.
AcceptContour(cnt, min) ==
    /\ ~(cnt.area < min)
    /\ cnt.h > 0
    /\ 3 * cnt.h <= 10 * cnt.w /\ cnt.w <= 3 * cnt.h
    /\ cnt.w > 50 /\ cnt.h > 50
    /\ cnt.area > min

\* rects without the sort.
SortRects_None(rects) == rects

\* rects.sort(key=lambda r: (r[1], r[0])): a stable sort by (y, x).
SortRects(rects) ==
    LET Before(a, b) == a.y < b.y \/ (a.y = b.y /\ a.x <= b.x)
        Insert(sorted, r) ==
            LET k == Cardinality({i \in 1..Len(sorted) : Before(sorted[i], r)})
            IN  SubSeq(sorted, 1, k) \o <<r>> \o SubSeq(sorted, k + 1, Len(sorted))
        F[i \in 0..Len(rects)] ==
            IF i = 0 THEN <<>> ELSE Insert(F[i - 1], rects[i])
    IN  F[Len(rects)]

\* The numbering going on from the list the previous call returned.
FirstId_Leftover == Len(comprobantes) + 1

\* enumerate(rects): numbering from 0.
FirstId_Zero == 1 - 1

\* enumerate(rects, start=1).
FirstId == 1

\* The record of the i-th rectangle; documento_id is Raised when
\* extract_documento_from_image raises on the crop.
Comprobante(r, i, engine, page_idx) ==
    LET id == FirstId + i - 1
        crop_img == [w |-> r.w, h |-> r.h, prep |-> r.prep, ocr |-> r.ocr]
    IN  [id |-> id,
         documento_id |-> extract_documento_from_image(crop_img, engine, page_idx, id),
         coordinates |-> [x |-> r.x, y |-> r.y, width |-> r.w, height |-> r.h],
         area |-> r.w * r.h,
         roi_image |-> crop_img]

\* The whole function. Whatever raises inside the try (a page_img that is
\* None, a cv2 step, a crop on which extract_documento_from_image raises)
\* ends in the except, which returns [].
detect_comprobantes_in_image(page_img, min_area, page_idx, engine, deps) ==
    IF ~deps THEN <<>>
    ELSE IF ~page_img.decoded \/ page_img.fail THEN <<>>
    ELSE LET min   == AdaptiveMinArea(min_area, page_img.w, page_img.h)
             rects == SortRects(SelectSeq(page_img.contours,
                                          LAMBDA c : AcceptContour(c, min)))
             comps == [i \in 1..Len(rects) |->
                          Comprobante(rects[i], i, engine, page_idx)]
         IN  IF \E i \in 1..Len(comps) : comps[i].documento_id = Raised
             THEN <<>>
             ELSE comps

\* adaptive_min_area when the function returns: unbound (None) when the
\* function returned or raised before the assignment.
AdaptiveMinAreaAtReturn(page_img, min_area, deps) ==
    IF deps /\ page_img.decoded
    THEN AdaptiveMinArea(min_area, page_img.w, page_img.h)
    ELSE None

(***************************************************************************)
(* run_image_extractor (src/main.py 439-575)                               *)
(***************************************************************************)
\* allowed_types
allowed_types == {"image/png", "image/jpeg", "image/jpg", "application/pdf"}

\* session_id = f"session_{os.urandom(8).hex()}", of the one request.
session_id == "session_0123456789abcdef"

\* f"{comp['documento_id']}.png": str(None) is 'None'.
Filename(documento_id) ==
    (IF documento_id = None THEN <<"N", "o", "n", "e">> ELSE documento_id)
    \o <<".", "p", "n", "g">>

\* The record after the loop that saves it, for a page of a pdf: filename,
\* file_path and page are set and roi_image is deleted.
SavedPdf(comp, page) ==
    [id |-> comp.id, documento_id |-> comp.documento_id,
     coordinates |-> comp.coordinates, area |-> comp.area,
     filename |-> Filename(comp.documento_id),
     file_path |-> <<session_id, Filename(comp.documento_id)>>,
     page |-> page]

\* The same for an image file: the loop sets no page.
SavedImage(comp) ==
    [id |-> comp.id, documento_id |-> comp.documento_id,
     coordinates |-> comp.coordinates, area |-> comp.area,
     filename |-> Filename(comp.documento_id),
     file_path |-> <<session_id, Filename(comp.documento_id)>>]

\* The writes that leave a file that exists as it is.
RECURSIVE WriteCrops_KeepFirst(_, _, _)
WriteCrops_KeepFirst(dir, comps, k) ==
    IF k > Len(comps) THEN dir
    ELSE LET name == Filename(comps[k].documento_id)
             next == [n \in (DOMAIN dir) \cup {name} |->
                         IF n \in DOMAIN dir THEN dir[n] ELSE comps[k].roi_image]
         IN  WriteCrops_KeepFirst(next, comps, k + 1)

\* The session directory after cv2.imwrite of each crop in turn: a file of
\* the same name is overwritten.
RECURSIVE WriteCrops(_, _, _)
WriteCrops(dir, comps, k) ==
    IF k > Len(comps) THEN dir
    ELSE LET name == Filename(comps[k].documento_id)
             next == [n \in (DOMAIN dir) \cup {name} |->
                         IF n = name THEN comps[k].roi_image ELSE dir[n]]
         IN  WriteCrops(next, comps, k + 1)

\* page.render(scale=2.0): the scale as a fraction.
render_scale == [num |-> 2, den |-> 1]

\* The min_area of an earlier call's correction handed to the next call.
MinAreaArg_Persisted ==
    IF Len(pages) = 0 THEN request.min_area ELSE adaptive_min_area

\* The min_area that run_image_extractor hands to every call of
\* detect_comprobantes_in_image: its own parameter.
MinAreaArg == request.min_area

\* The new records put in front of the list.
Extend_Prepend(list, found) == found \o list

\* extracted_comprobantes = comprobantes in place of the extend.
Extend_Assign(list, found) == found

\* extracted_comprobantes.extend(comprobantes)
Extend(list, found) == list \o found

\* The aggregate response.
AggregateResponse(comps) ==
    [status |-> 200, success |-> TRUE, session_id |-> <<session_id>>,
     total_comprobantes |-> Len(comps), comprobantes |-> comps,
     download_base_url |-> <<"/files/", session_id>>]

\* The individual results with every record renumbered to id 1.
IndividualResponse_IdOne(comps) ==
    [status |-> 200,
     individual_results |->
        [i \in 1..Len(comps) |->
            [success |-> TRUE, session_id |-> <<session_id, "_comp_", i>>,
             total_comprobantes |-> 1,
             comprobantes |-> <<[comps[i] EXCEPT !.id = 1]>>,
             download_base_url |-> <<"/files/", session_id>>]]]

\* The response of individual_comprobantes: one result per record.
IndividualResponse(comps) ==
    [status |-> 200,
     individual_results |->
        [i \in 1..Len(comps) |->
            [success |-> TRUE, session_id |-> <<session_id, "_comp_", i>>,
             total_comprobantes |-> 1, comprobantes |-> <<comps[i]>>,
             download_base_url |-> <<"/files/", session_id>>]]]

\* raise HTTPException(status_code=...)
ErrorResponse(code) == [status |-> code]

(***************************************************************************)
(* buscar_valor_neto (src/main2.py 113-173)                                *)
(*                                                                         *)
(* A regular expression is a sequence of items. An item is a choice among  *)
(* units, or one unit repeated lo to hi times, greedily or lazily; a unit  *)
(* is a sequence of character classes of fixed length. The matcher tries   *)
(* the possibilities in the order of the re module and takes the first     *)
(* that lets the rest of the expression match.                             *)
(***************************************************************************)
\* A literal under re.IGNORECASE, character by character.
CI(c) ==
    CASE c = "N" -> {"N", "n"} [] c = "E" -> {"E", "e"} [] c = "T" -> {"T", "t"}
      [] c = "O" -> {"O", "o"} [] c = "S" -> {"S", "s"} [] c = "U" -> {"U", "u"}
      [] c = "B" -> {"B", "b"} [] c = "A" -> {"A", "a"} [] c = "L" -> {"L", "l"}
      [] c = "I" -> {"I", "i"} [] c = "V" -> {"V", "v"}
      [] OTHER -> {c}

Word(w) == [k \in 1..Len(w) |-> CI(w[k])]

\* The characters of the texts of the model other than digits and whitespace.
OtherChars == {",", ".", "$", ":", "%", "N", "E", "T", "O", "n", "e", "t", "o",
               "S", "U", "B", "A", "L", "I", "V"}

\* The class of  .  (the cleaned text has no newline).
AnyChar == (Digits \cup OtherChars \cup Whitespace) \ {"\n"}

\* Items: a literal, a class repeated, a unit repeated, a choice of literals.
Lit(w) == [alts |-> <<Word(w)>>, lo |-> 1, hi |-> 1, lazy |-> FALSE]
Rep(C, lo, hi) == [alts |-> <<<<C>>>>, lo |-> lo, hi |-> hi, lazy |-> FALSE]
Star(C) == [alts |-> <<<<C>>>>, lo |-> 0, hi |-> 1000, lazy |-> FALSE]
Plus(C) == [alts |-> <<<<C>>>>, lo |-> 1, hi |-> 1000, lazy |-> FALSE]
LazyStar(C) == [alts |-> <<<<C>>>>, lo |-> 0, hi |-> 1000, lazy |-> TRUE]
StarUnit(u) == [alts |-> <<u>>, lo |-> 0, hi |-> 1000, lazy |-> FALSE]
Choice(ws) == [alts |-> [k \in 1..Len(ws) |-> Word(ws[k])],
               lo |-> 1, hi |-> 1, lazy |-> FALSE]

\* Whether unit u matches s at position i.
UnitAt(u, s, i) ==
    /\ i + Len(u) - 1 <= Len(s)
    /\ \A k \in 1..Len(u) : s[i + k - 1] \in u[k]

\* The most consecutive repetitions of u in s from position i, up to hi.
RepMax(u, s, i, hi) ==
    Max({ n \in 0..(Len(s) + 1 - i) :
            /\ n <= hi
            /\ \A j \in 0..(n - 1) : UnitAt(u, s, i + j * Len(u)) })

\* Match(items, k, s, i): the items from the k-th on matched against s at
\* position i: <<>> when they do not match, else the position at which each
\* of them starts followed by the position after the match.
RECURSIVE Match(_, _, _, _)
RECURSIVE TryRep(_, _, _, _, _, _)
RECURSIVE TryAlt(_, _, _, _, _)

\* n repetitions of the k-th item, then the next count in the order of the
\* re module: fewer for a greedy item, more for a lazy one.
TryRep(items, k, s, i, n, nmax) ==
    IF n < items[k].lo \/ n > nmax THEN <<>>
    ELSE LET r == Match(items, k + 1, s, i + n * Len(items[k].alts[1]))
         IN  IF r # <<>> THEN <<i>> \o r
             ELSE TryRep(items, k, s, i,
                         IF items[k].lazy THEN n + 1 ELSE n - 1, nmax)

\* The a-th alternative of the k-th item, then the next one.
TryAlt(items, k, s, i, a) ==
    IF a > Len(items[k].alts) THEN <<>>
    ELSE LET u == items[k].alts[a]
             r == IF UnitAt(u, s, i) THEN Match(items, k + 1, s, i + Len(u))
                  ELSE <<>>
         IN  IF r # <<>> THEN <<i>> \o r ELSE TryAlt(items, k, s, i, a + 1)

Match(items, k, s, i) ==
    IF k > Len(items) THEN <<i>>
    ELSE IF Len(items[k].alts) > 1 THEN TryAlt(items, k, s, i, 1)
    ELSE LET nmax == RepMax(items[k].alts[1], s, i, items[k].hi)
         IN  TryRep(items, k, s, i,
                    IF items[k].lazy THEN items[k].lo ELSE nmax, nmax)

\* [\s], [\s,], [\s\.], [\s,\.], [,\.]
S_ == Whitespace
SC == Whitespace \cup {","}
SP == Whitespace \cup {"."}
SCP == Whitespace \cup {",", "."}
CP == {",", "."}

\* NETO[\s]*\$?[\s]*
NetoPrefix == << Lit(<<"N","E","T","O">>), Star(S_), Rep({"$"}, 0, 1), Star(S_) >>

\* [0-9]{1,3}(?:[,\.][0-9]{3})*[,\.][0-9]{2}
Amount == << Rep(Digits, 1, 3), StarUnit(<<CP, Digits, Digits, Digits>>),
             Rep(CP, 1, 1), Rep(Digits, 2, 2) >>

\* patterns: the items of each expression and the items its group spans (the
\* whole expression for the first, which has no group).
neto_patterns == <<
    [items |-> NetoPrefix \o
               << Lit(<<"1","6">>), Star(SC), Lit(<<"2","2","0">>), Star(SC),
                  Lit(<<"1","6","7">>), Star(SP), Lit(<<"0","0">>) >>,
     gs |-> 1, ge |-> 11],
    [items |-> NetoPrefix \o
               << Rep(Digits, 1, 3), Star(SCP), Rep(Digits, 3, 3), Star(SCP),
                  Rep(Digits, 3, 3), Star(SCP), Rep(Digits, 2, 2) >>,
     gs |-> 5, ge |-> 11],
    [items |-> << Rep(Digits, 1, 3), Star(SC), Rep(Digits, 3, 3), Star(SC),
                  Rep(Digits, 3, 3), Star(SP), Rep(Digits, 2, 2) >>,
     gs |-> 1, ge |-> 7],
    [items |-> NetoPrefix \o Amount, gs |-> 5, ge |-> 8],
    [items |-> << Choice(<< <<"S","U","B","T","O","T","A","L">>, <<"I","V","A">>,
                            <<"T","O","T","A","L">>, <<"N","E","T","O">> >>),
                  Star(S_), Lit(<<":">>), Star(S_), Rep({"$"}, 0, 1), Star(S_) >>
               \o Amount,
     gs |-> 7, ge |-> 10],
    [items |-> << Lit(<<"N","E","T">>), Rep({"O", "o", "0"}, 0, 1),
                  Star(S_), Rep({"$"}, 0, 1), Star(S_) >> \o Amount,
     gs |-> 6, ge |-> 9],
    [items |-> << Rep(Digits, 2, 3), Rep(CP, 1, 1), Rep(Digits, 3, 3),
                  Rep(CP, 1, 1), Rep(Digits, 3, 3), Rep(CP, 1, 1),
                  Rep(Digits, 2, 2) >>,
     gs |-> 1, ge |-> 7],
    [items |-> << Lit(<<"N","E","T","O">>), Plus(S_), Rep(Digits, 6, 1000),
                  Rep(CP, 1, 1), Rep(Digits, 2, 2) >>,
     gs |-> 3, ge |-> 5],
    [items |-> << Lit(<<"N","E","T">>), Rep({"O", "o", "0"}, 0, 1),
                  LazyStar(AnyChar) >> \o Amount,
     gs |-> 4, ge |-> 7] >>

\* re.findall(patron, texto_limpio, re.IGNORECASE | re.MULTILINE): the groups
\* of the leftmost, non-overlapping matches, scanning from position i.
RECURSIVE NetoFindAllFrom(_, _, _)
NetoFindAllFrom(p, s, i) ==
    IF i > Len(s) THEN <<>>
    ELSE LET r == Match(p.items, 1, s, i)
         IN  IF r # <<>>
             THEN <<SubSeq(s, r[p.gs], r[p.ge + 1] - 1)>>
                  \o NetoFindAllFrom(p, s, r[Len(r)])
             ELSE NetoFindAllFrom(p, s, i + 1)

\* re.sub(r'\s+', '', match.strip()); the second re.sub puts back what it
\* matches.
ValorLimpio(match) == SelectSeq(match, LAMBDA c : c \notin Whitespace)

\* valor_limpio.replace(',', '').replace('.', '')
ValorNumerico(valor_limpio) == SelectSeq(valor_limpio, LAMBDA c : c \notin {",", "."})

\* The first match, from the j-th on, with len(valor_numerico) >= 6.
RECURSIVE FirstValor(_, _)
FirstValor(matches, j) ==
    IF j > Len(matches) THEN None
    ELSE IF Len(ValorNumerico(ValorLimpio(matches[j]))) >= 6
         THEN ValorLimpio(matches[j])
         ELSE FirstValor(matches, j + 1)

\* return "16,220,167.00"
SpecificValue == <<"1","6",",","2","2","0",",","1","6","7",".","0","0">>

\* The loop over the patterns from the k-th on.
RECURSIVE NetoPatternsFrom(_, _)
NetoPatternsFrom(t, k) ==
    IF k > Len(neto_patterns) THEN None
    ELSE LET matches == NetoFindAllFrom(neto_patterns[k], t, 1)
         IN  IF matches # <<>> /\ k = 1 THEN SpecificValue
             ELSE IF matches # <<>> /\ FirstValor(matches, 1) # None
                  THEN FirstValor(matches, 1)
                  ELSE NetoPatternsFrom(t, k + 1)

buscar_valor_neto(t) ==
    IF t = <<>> THEN None ELSE NetoPatternsFrom(Clean(t), 1)

(***************************************************************************)
(* extract_neto_with_ocr (src/main2.py 175-238)                            *)
(*                                                                         *)
(* As in extract_documento_with_ocr, ocr[k] is the text of the k-th call   *)
(* of the backend on the image, or Raised.                                 *)
(***************************************************************************)
\* configs
neto_configs == <<"--psm 6 -c tessedit_char_whitelist=0123456789,.$ NETO",
                  "--psm 6", "--psm 4", "--psm 7", "--psm 8", "--psm 11",
                  "--psm 13">>

\* The pytesseract loop from the k-th configuration on.
RECURSIVE NetoTesseractFrom(_, _)
NetoTesseractFrom(ocr, k) ==
    IF k > Len(neto_configs) THEN None
    ELSE IF ocr[k] # Raised /\ buscar_valor_neto(ocr[k]) # None
         THEN buscar_valor_neto(ocr[k])
         ELSE NetoTesseractFrom(ocr, k + 1)

\* The two readtext calls of easyocr inside one try.
NetoEasyOcr(ocr) ==
    IF ocr[1] = Raised THEN None
    ELSE IF buscar_valor_neto(ocr[1]) # None THEN buscar_valor_neto(ocr[1])
    ELSE IF ocr[2] = Raised THEN None
    ELSE buscar_valor_neto(ocr[2])

extract_neto_with_ocr(ocr, engine) ==
    CASE engine = "pytesseract" -> NetoTesseractFrom(ocr, 1)
      [] engine = "easyocr" -> NetoEasyOcr(ocr)
      [] OTHER -> None

(***************************************************************************)
(* extract_valor_neto_from_image (src/main2.py 240-323)                    *)
(*                                                                         *)
(* A page image is [render, w, h, prep, ocr]: render says whether          *)
(* rendering the page raises, prep whether a cv2 step on the ROI raises,   *)
(* and ocr[1], ocr[2], ocr[3] are the answers of the backend on the        *)
(* binary, the enhanced and the original ROI.                              *)
(***************************************************************************)
\* roi = gray[int(h * 0.85):h, int(w * 0.5):w]; roi.size (the products are
\* exact for the sizes of the model).
NetoRoiSize(w, h) == (h - (h * 85) \div 100) * (w - w \div 2)

\* The three attempts, from the a-th on: binary, enhanced, ROI.
RECURSIVE NetoAttemptsFrom(_, _, _)
NetoAttemptsFrom(img, engine, a) ==
    IF a > 3 THEN None
    ELSE IF a < 3 /\ extract_neto_with_ocr(img.ocr[a], engine) = None
         THEN NetoAttemptsFrom(img, engine, a + 1)
         ELSE extract_neto_with_ocr(img.ocr[a], engine)

extract_valor_neto_from_image(img, engine, deps) ==
    IF ~deps THEN None
    ELSE IF NetoRoiSize(img.w, img.h) = 0 THEN None
    ELSE IF img.prep = "raise" THEN None
    ELSE NetoAttemptsFrom(img, engine, 1)

(***************************************************************************)
(* process_pdf_for_neto (src/main2.py 325-387) and extract_valor_neto      *)
(* (src/main2.py 432-514)                                                  *)
(***************************************************************************)
\* "found": True on every page.
Found_Always(valor) == TRUE

\* "found": valor_neto is not None
Found(valor) == valor # None

\* The result of one page of the loop: the except of the page gives a result
\* with an error.
PageResult(img, page, engine, deps) ==
    IF img.render = "raise"
    THEN [page |-> page, valor_neto |-> None, found |-> FALSE, error |-> "error"]
    ELSE [page |-> page,
          valor_neto |-> extract_valor_neto_from_image(img, engine, deps),
          found |-> Found(extract_valor_neto_from_image(img, engine, deps))]

\* valores_encontrados = [r for r in resultados if r.get("found", False)]
ValoresEncontrados(res) == SelectSeq(res, LAMBDA r : r.found)

\* file.filename.lower().endswith('.pdf')
EndsWithPdf(filename) ==
    LET lower(c) == CASE c = "P" -> "p" [] c = "D" -> "d" [] c = "F" -> "f"
                      [] c = "A" -> "a" [] OTHER -> c
        n == Len(filename)
    IN  /\ n >= 4
        /\ [k \in 1..4 |-> lower(filename[n - 4 + k])] = <<".", "p", "d", "f">>

\* The response of extract_valor_neto.
NetoResponse(res) ==
    [status |-> 200, success |-> TRUE,
     total_pages |-> Len(res),
     valores_encontrados |-> Len(ValoresEncontrados(res)),
     results |-> res,
     summary |-> [valores_neto |->
                      [i \in 1..Len(ValoresEncontrados(res)) |->
                          ValoresEncontrados(res)[i].valor_neto],
                  pages_with_neto |->
                      [i \in 1..Len(ValoresEncontrados(res)) |->
                          ValoresEncontrados(res)[i].page]]]

(***************************************************************************)
(* The OCR texts of the model                                              *)
(***************************************************************************)
\* Longest run of leading zeros, and of digits after them, of a number in a
\* one-number text.
MaxZeros == 8
MaxTail == 10

Zeros(z) == [i \in 1..z |-> "0"]

TailDigits == <<"8", "0", "1", "3", "6", "3", "6", "2", "7", "4", "5", "9">>

NumTail(n) == [i \in 1..n |-> TailDigits[((i - 1) % Len(TailDigits)) + 1]]

Labels == { <<>>,
            <<"D","o","c","u","m","e","n","t","o">>,
            <<"o","c","u","m","e","n","t","o">>,
            <<"u","m","e","n","t","o">>,
            <<"D","o","c">>,
            <<"D","o","c","s">>,
            <<"D","O","C","U","M","E","N","T","O">> }

Seps == { <<>>, <<":">>, <<":", " ">>, <<":", "\n", " ">>, <<" ", "x", " ">> }

Segment(l, s, z, n) == l \o s \o Zeros(z) \o NumTail(n)

\* Texts with one number.
SingleTexts ==
    { Segment(l, s, z, n) : l \in Labels, s \in Seps,
                            z \in 0..MaxZeros, n \in 0..MaxTail }

\* <<zeros, digits after them>> of the numbers of the two-number texts; the
\* second digit string differs from the first in its last digit.
KeyRuns == { <<8, 0>>, <<6, 2>>, <<0, 5>>, <<0, 8>>, <<2, 6>>, <<0, 10>>, <<7, 9>> }

KeyLabels == { <<>>, <<"D","o","c","u","m","e","n","t","o", ":">>, <<"D","o","c">> }

Second(s) == IF s = <<>> THEN s ELSE SubSeq(s, 1, Len(s) - 1) \o <<"1">>

\* Texts with two numbers.
PairTexts ==
    { (l1 \o <<" ">> \o Zeros(k1[1]) \o NumTail(k1[2])) \o <<" ">> \o
      (l2 \o <<" ">> \o Second(Zeros(k2[1]) \o NumTail(k2[2]))) :
        l1 \in KeyLabels, l2 \in KeyLabels, k1 \in KeyRuns, k2 \in KeyRuns }

Texts == SingleTexts \cup PairTexts \cup { <<" ">>, <<"\n">> }

(***************************************************************************)
(* SpecBuscar: buscar_numero_documento on one text                         *)
(***************************************************************************)
\* The variables of a function the specification does not call.
NoBuscar == texto = <<>> /\ doc = Pending /\ valor_neto = Pending
NoExtract == crop = <<>> /\ ext = Pending /\ scale = Pending
NoDetect ==
    det = <<>> /\ adaptive_min_area = None /\ comprobantes = <<>> /\ log = <<>>
NoJob ==
    /\ request = <<>>
    /\ session_dir = FALSE /\ temp_file = FALSE /\ files = <<>>
    /\ pdf_len = 0 /\ pdf_page_idx = 0 /\ pages = <<>> /\ renders = <<>>
    /\ extracted_comprobantes = <<>>
    /\ resultados = <<>>
    /\ response = <<>>
NoLoop == loop = {} /\ handlers = <<>> /\ ocr_in_progress = {}

InitBuscar ==
    /\ pc = "call"
    /\ NoLoop
    /\ DEPENDENCIES_OK = TRUE
    /\ OCR_ENGINE = "none"
    /\ texto \in Texts
    /\ doc = Pending
    /\ valor_neto = Pending
    /\ NoExtract
    /\ NoDetect
    /\ NoJob

CallBuscar ==
    /\ pc = "call"
    /\ pc' = "return"
    /\ doc' = buscar_numero_documento(texto)
    /\ UNCHANGED <<globals, loopVars, texto, valor_neto, extractVars, detectVars, jobVars>>

NextBuscar == CallBuscar

SpecBuscar == InitBuscar /\ [][NextBuscar]_vars

(***************************************************************************)
(* SpecExtract: extract_documento_from_image on one crop                   *)
(***************************************************************************)
\* 'Documento: 000000801363627'
TextDocumento ==
    <<"D","o","c","u","m","e","n","t","o",":"," ">> \o Zeros(6) \o NumTail(9)

\* What one OCR call answers: it raises, or gives no text, blanks, a text
\* with a labelled number, a text with a number that is too short, or a text
\* with a bare number.
OcrAnswers ==
    { Raised, <<>>, <<" ", "\n">>, TextDocumento,
      <<"D","o","c",":">> \o Zeros(6) \o NumTail(2), NumTail(8) }

\* The answers of the calls the engine makes on one image.
OcrOf(engine) ==
    CASE engine = "pytesseract" -> [1..Len(configs) -> OcrAnswers]
      [] engine = "easyocr" -> [1..1 -> OcrAnswers]
      [] OTHER -> {<<>>}

\* Width and height of the crops; a crop of height 1 has an empty ROI, the
\* ROI of the crops of width 375 and 250 is 150 and 100 columns wide and
\* higher than that, and the ROI of the last is 400 columns by 245 rows.
CropSizes == { <<100, 1>>, <<60, 2>>, <<51, 51>>, <<500, 90>>, <<375, 1000>>,
               <<250, 1000>>, <<1000, 700>> }

\* <<page index, region index>> of the calls.
Idxs == { <<1, 1>>, <<1, 9>>, <<12, 10>>, <<100, 3>>, <<2, 123>> }

InitExtract ==
    /\ pc = "call"
    /\ NoLoop
    /\ DEPENDENCIES_OK = TRUE
    /\ OCR_ENGINE \in Engines
    /\ NoBuscar
    /\ NoDetect
    /\ NoJob
    /\ \E s \in CropSizes, p \in {"ok", "raise"}, o \in OcrOf(OCR_ENGINE),
          i \in Idxs :
            crop = [img |-> [w |-> s[1], h |-> s[2], prep |-> p, ocr |-> o],
                    page_idx |-> i[1], comp_idx |-> i[2]]
    /\ ext = Pending
    /\ scale = Pending

CallExtract ==
    /\ pc = "call"
    /\ pc' = "return"
    /\ ext' = extract_documento_from_image(crop.img, OCR_ENGINE,
                                           crop.page_idx, crop.comp_idx)
    /\ scale' = ResizeScale(crop.img.w, crop.img.h)
    /\ UNCHANGED <<globals, loopVars, buscarVars, crop, detectVars, jobVars>>

NextExtract == CallExtract

SpecExtract == InitExtract /\ [][NextExtract]_vars

(***************************************************************************)
(* SpecDetect: detect_comprobantes_in_image on one page image              *)
(***************************************************************************)
\* The most contours on a page.
MaxContours == 2

\* Width and height of the page images: 100000 px2, 1000000 px2 (of which
\* the default min_area is exactly 5%), and an area no multiple of 50.
PageSizes == { <<400, 250>>, <<1000, 1000>>, <<333, 777>> }

\* The caller's min_area.
MinAreas == {3000, 5000, 5001, 50000, 50001}

\* What the OCR backend answers on a region: a labelled number on the second
\* call, a bare number at once, or no number at all.
OcrDocA == <<Raised, TextDocumento, <<>>, <<>>>>
OcrDocB == <<NumTail(8), <<>>, <<>>, <<>>>>
OcrNone == <<<<>>, Raised, <<"D","o","c",":">> \o Zeros(6) \o NumTail(2), <<" ">>>>

Cnt(x, y, w, h, area, prep, ocr) ==
    [x |-> x, y |-> y, w |-> w, h |-> h, area |-> area, prep |-> prep, ocr |-> ocr]

\* The contours a page is made of; each fits every page size, and its area is
\* at most that of its bounding rectangle.
Contours ==
    { Cnt(0, 0, 100, 100, 10000, "ok", OcrDocA),
      Cnt(0, 0, 100, 100, 5000, "ok", OcrNone),
      Cnt(0, 0, 100, 100, 5001, "ok", OcrNone),
      Cnt(200, 0, 100, 100, 10000, "ok", OcrDocA),
      Cnt(0, 120, 51, 60, 3001, "ok", OcrNone),
      Cnt(100, 120, 50, 100, 5000, "ok", OcrDocB),
      Cnt(120, 10, 60, 200, 12000, "ok", OcrDocB),
      Cnt(120, 10, 59, 200, 11800, "ok", OcrDocB),
      Cnt(150, 130, 180, 60, 10800, "ok", OcrNone),
      Cnt(150, 130, 181, 60, 10800, "ok", OcrNone),
      Cnt(0, 0, 300, 200, 60000, "raise", OcrDocA),
      Cnt(0, 0, 300, 200, 50001, "ok", OcrDocB) }

\* The sequences of at most n elements of S.
SeqsUpTo(S, n) == UNION { [1..k -> S] : k \in 0..n }

\* cv2.imread of a file that is no image: None.
NoImage == [decoded |-> FALSE, w |-> 0, h |-> 0, fail |-> FALSE, contours |-> <<>>]

\* A small image, of less than 20 times the smallest min_area, and the
\* contours that fit it.
SmallPageSize == <<200, 250>>
SmallContours ==
    { c \in Contours : c.x + c.w <= SmallPageSize[1] /\ c.y + c.h <= SmallPageSize[2] }

PageImages ==
    { [decoded |-> TRUE, w |-> s[1], h |-> s[2], fail |-> FALSE, contours |-> c] :
        s \in PageSizes, c \in SeqsUpTo(Contours, MaxContours) }
    \cup { [decoded |-> TRUE, w |-> SmallPageSize[1], h |-> SmallPageSize[2],
            fail |-> FALSE, contours |-> c] :
        c \in SeqsUpTo(SmallContours, MaxContours) }
    \cup { [decoded |-> TRUE, w |-> s[1], h |-> s[2], fail |-> TRUE, contours |-> <<>>] :
        s \in PageSizes }
    \cup { NoImage }

InitDetect ==
    /\ pc = "call"
    /\ NoLoop
    /\ DEPENDENCIES_OK \in BOOLEAN
    /\ OCR_ENGINE \in Engines
    /\ NoBuscar
    /\ NoExtract
    /\ NoJob
    /\ \E img \in PageImages, m \in MinAreas, p \in {1, 2} :
          /\ ~DEPENDENCIES_OK => img = NoImage
          /\ det = [page_img |-> img, min_area |-> m, page_idx |-> p]
    /\ adaptive_min_area = None
    /\ comprobantes = <<>>
    /\ log = <<>>

CallDetect ==
    /\ pc = "call"
    /\ pc' = "return"
    /\ comprobantes' = detect_comprobantes_in_image(
                            det.page_img, det.min_area, det.page_idx,
                            OCR_ENGINE, DEPENDENCIES_OK)
    /\ adaptive_min_area' = AdaptiveMinAreaAtReturn(
                                det.page_img, det.min_area, DEPENDENCIES_OK)
    /\ UNCHANGED <<globals, loopVars, buscarVars, extractVars, det, log, jobVars>>

NextDetect == CallDetect

SpecDetect == InitDetect /\ [][NextDetect]_vars

(***************************************************************************)
(* Spec: one request to run_image_extractor                                *)
(***************************************************************************)
\* The most pages of a pdf.
MaxPages == 3

\* The page images of the uploaded files: a blank page, a page with three
\* regions out of reading order (two of them, of different widths, with the
\* same document number),
\* a large page with one region, a page on which a cv2 step raises, and a
\* page with a region whose preprocessing raises.
JobPages ==
    { [decoded |-> TRUE, w |-> 400, h |-> 250, fail |-> FALSE, contours |-> <<>>],
      [decoded |-> TRUE, w |-> 400, h |-> 250, fail |-> FALSE, contours |->
          << Cnt(150, 130, 180, 60, 10800, "ok", OcrNone),
             Cnt(200, 0, 120, 100, 10000, "ok", OcrDocA),
             Cnt(0, 0, 100, 100, 10000, "ok", OcrDocA) >>],
      [decoded |-> TRUE, w |-> 1000, h |-> 1000, fail |-> FALSE, contours |->
          << Cnt(600, 500, 300, 200, 60000, "ok", OcrDocB),
             Cnt(0, 0, 100, 100, 10000, "ok", OcrNone) >>],
      [decoded |-> TRUE, w |-> 400, h |-> 250, fail |-> TRUE, contours |-> <<>>],
      [decoded |-> TRUE, w |-> 400, h |-> 250, fail |-> FALSE, contours |->
          << Cnt(0, 0, 100, 100, 10000, "ok", OcrDocA),
             Cnt(200, 0, 100, 100, 10000, "raise", OcrDocB) >>] }

\* What the uploaded bytes are, whatever the declared content type.
FileKinds == {"image", "pdf", "garbage"}

\* The declared content types of the requests.
ContentTypes == {"image/png", "image/jpeg", "application/pdf", "text/plain"}

\* min_area of the requests: a grid value and the default.
JobMinAreas == {5000, 50000}

Init ==
    /\ pc = "validate"
    /\ NoLoop
    /\ DEPENDENCIES_OK \in BOOLEAN
    /\ OCR_ENGINE \in Engines
    /\ NoBuscar
    /\ NoExtract
    /\ NoDetect
    /\ \E t \in ContentTypes, k \in FileKinds, m \in JobMinAreas, i \in BOOLEAN :
          request = [content_type |-> t, file |-> k, min_area |-> m,
                     individual_comprobantes |-> i]
    /\ session_dir = FALSE /\ temp_file = FALSE /\ files = <<>>
    /\ pdf_len = 0 /\ pdf_page_idx = 0 /\ pages = <<>> /\ renders = <<>>
    /\ extracted_comprobantes = <<>>
    /\ resultados = <<>>
    /\ response = <<>>

\* Lines 457-470: the two checks that raise before anything is created.
Validate ==
    /\ pc = "validate"
    /\ IF ~DEPENDENCIES_OK
       THEN response' = ErrorResponse(503) /\ pc' = "done"
       ELSE IF request.content_type \notin allowed_types
       THEN response' = ErrorResponse(400) /\ pc' = "done"
       ELSE response' = response /\ pc' = "session"
    /\ UNCHANGED <<globals, loopVars, buscarVars, extractVars, detectVars, request, renders, resultados,
                   sessionVars, pdf_len, pdf_page_idx, pages,
                   extracted_comprobantes>>

\* Lines 472-485: the session directory and the temporary copy of the upload.
CreateSession ==
    /\ pc = "session"
    /\ session_dir' = TRUE
    /\ temp_file' = TRUE
    /\ extracted_comprobantes' = <<>>
    /\ pc' = IF request.content_type = "application/pdf" THEN "open" ELSE "image"
    /\ UNCHANGED <<globals, loopVars, buscarVars, extractVars, detectVars, request, renders, resultados,
                   files, pdf_len, pdf_page_idx, pages, response>>

\* Line 489: pdfium.PdfDocument raises on bytes that are no pdf.
OpenPdf ==
    /\ pc = "open"
    /\ IF request.file = "pdf"
       THEN /\ \E n \in 1..MaxPages : pdf_len' = n
            /\ pc' = "page"
       ELSE /\ pdf_len' = pdf_len
            /\ pc' = "except"
    /\ pdf_page_idx' = 0
    /\ UNCHANGED <<globals, loopVars, buscarVars, extractVars, detectVars, request, renders, resultados,
                   sessionVars, pages, extracted_comprobantes, response>>

\* Lines 492-515: one turn of the loop over the pages: render, detect, save
\* every crop, extend the list.
ProcessPdfPage ==
    /\ pc = "page"
    /\ pdf_page_idx < pdf_len
    /\ renders' = Append(renders, [page |-> pdf_page_idx,
                                   scale |-> render_scale, ok |-> TRUE])
    /\ \E cv_image \in JobPages :
          /\ pages' = Append(pages, cv_image)
          /\ det' = [page_img |-> cv_image, min_area |-> MinAreaArg,
                     page_idx |-> pdf_page_idx + 1]
    /\ comprobantes' = detect_comprobantes_in_image(
                            det'.page_img, det'.min_area, det'.page_idx,
                            OCR_ENGINE, DEPENDENCIES_OK)
    /\ adaptive_min_area' = AdaptiveMinAreaAtReturn(det'.page_img,
                                                    det'.min_area,
                                                    DEPENDENCIES_OK)
    /\ files' = WriteCrops(files, comprobantes', 1)
    /\ extracted_comprobantes' =
          Extend(extracted_comprobantes,
                 [i \in 1..Len(comprobantes') |->
                     SavedPdf(comprobantes'[i], pdf_page_idx + 1)])
    /\ pdf_page_idx' = pdf_page_idx + 1
    /\ UNCHANGED <<pc, globals, loopVars, buscarVars, extractVars, log,
                   request, resultados, session_dir, temp_file, pdf_len,
                   response>>

\* Lines 493-494: pdf.get_page or page.render raises on a damaged page; the
\* finally closes the document and the except of the handler takes over,
\* with the crops of the earlier pages already written.
RenderRaises ==
    /\ pc = "page"
    /\ pdf_page_idx < pdf_len
    /\ renders' = Append(renders, [page |-> pdf_page_idx,
                                   scale |-> render_scale, ok |-> FALSE])
    /\ pc' = "except"
    /\ UNCHANGED <<globals, loopVars, buscarVars, extractVars, detectVars,
                   request, resultados, sessionVars, pdf_len, pdf_page_idx,
                   pages, extracted_comprobantes, response>>

\* Lines 517-518: the loop is over and the document is closed.
ClosePdf ==
    /\ pc = "page"
    /\ pdf_page_idx = pdf_len
    /\ pc' = "respond"
    /\ UNCHANGED <<globals, loopVars, buscarVars, extractVars, detectVars, jobVars>>

\* Lines 520-535: an image file: cv2.imread gives None for bytes that are no
\* image, and detect_comprobantes_in_image is called with it all the same.
ProcessImage ==
    /\ pc = "image"
    /\ \E image \in (IF request.file = "image" THEN JobPages ELSE {NoImage}) :
          /\ pages' = Append(pages, image)
          /\ det' = [page_img |-> image, min_area |-> MinAreaArg,
                     page_idx |-> 1]
    /\ comprobantes' = detect_comprobantes_in_image(
                            det'.page_img, det'.min_area, det'.page_idx,
                            OCR_ENGINE, DEPENDENCIES_OK)
    /\ adaptive_min_area' = AdaptiveMinAreaAtReturn(det'.page_img,
                                                    det'.min_area,
                                                    DEPENDENCIES_OK)
    /\ files' = WriteCrops(files, comprobantes', 1)
    /\ extracted_comprobantes' =
          [i \in 1..Len(comprobantes') |-> SavedImage(comprobantes'[i])]
    /\ pc' = "respond"
    /\ UNCHANGED <<globals, loopVars, buscarVars, extractVars, log, request,
                   renders, resultados, session_dir, temp_file, pdf_len,
                   pdf_page_idx, response>>

\* Lines 537-563: the response, individual or aggregate; the temporary file
\* is left to the background task.
Respond ==
    /\ pc = "respond"
    /\ response' = IF request.individual_comprobantes
                   THEN IndividualResponse(extracted_comprobantes)
                   ELSE AggregateResponse(extracted_comprobantes)
    /\ pc' = "done"
    /\ UNCHANGED <<globals, loopVars, buscarVars, extractVars, detectVars, request, renders, resultados,
                   sessionVars, pdf_len, pdf_page_idx, pages,
                   extracted_comprobantes>>

\* The except of the handler answering 500 without removing the session
\* directory.
HandleException_KeepDir ==
    /\ pc = "except"
    /\ temp_file' = FALSE
    /\ response' = ErrorResponse(500)
    /\ pc' = "done"
    /\ UNCHANGED <<globals, loopVars, buscarVars, extractVars, detectVars,
                   request, renders, resultados, session_dir, files, pdf_len,
                   pdf_page_idx, pages, extracted_comprobantes>>

\* Lines 565-575: the except of the handler removes the temporary file and
\* the session directory and answers 500.
HandleException ==
    /\ pc = "except"
    /\ temp_file' = FALSE
    /\ session_dir' = FALSE
    /\ files' = <<>>
    /\ response' = ErrorResponse(500)
    /\ pc' = "done"
    /\ UNCHANGED <<globals, loopVars, buscarVars, extractVars, detectVars, request, renders, resultados,
                   pdf_len, pdf_page_idx, pages, extracted_comprobantes>>

\* Lines 765-771: the background task, after a successful response.
cleanup_temp_file ==
    /\ pc = "done"
    /\ response.status = 200
    /\ temp_file
    /\ temp_file' = FALSE
    /\ UNCHANGED <<pc, globals, loopVars, buscarVars, extractVars, detectVars, request, renders, resultados,
                   session_dir, files, pdf_len, pdf_page_idx, pages,
                   extracted_comprobantes, response>>

Next ==
    \/ Validate
    \/ CreateSession
    \/ OpenPdf
    \/ ProcessPdfPage
    \/ RenderRaises
    \/ ClosePdf
    \/ ProcessImage
    \/ Respond
    \/ HandleException
    \/ cleanup_temp_file

Spec == Init /\ [][Next]_vars

(***************************************************************************)
(* SpecRepeat: successive calls of detect_comprobantes_in_image, of the    *)
(* same or of different requests, in one process                           *)
(***************************************************************************)
\* The most calls.
MaxCalls == 3

\* The page images of the calls: those of JobPages with regions.
RepeatPages == { p \in JobPages : p.contours # <<>> }

InitRepeat ==
    /\ pc = "call"
    /\ NoLoop
    /\ DEPENDENCIES_OK = TRUE
    /\ OCR_ENGINE \in Engines
    /\ NoBuscar
    /\ NoExtract
    /\ NoDetect
    /\ NoJob

\* One more call, with any arguments; the globals are as initialize_ocr left
\* them at import.
CallRepeat ==
    /\ Len(log) < MaxCalls
    /\ \E img \in RepeatPages, m \in JobMinAreas, p \in {1, 2} :
          det' = [page_img |-> img, min_area |-> m, page_idx |-> p]
    /\ comprobantes' = detect_comprobantes_in_image(
                            det'.page_img, det'.min_area, det'.page_idx,
                            OCR_ENGINE, DEPENDENCIES_OK)
    /\ adaptive_min_area' = AdaptiveMinAreaAtReturn(
                                det'.page_img, det'.min_area, DEPENDENCIES_OK)
    /\ log' = Append(log, [args |-> det', result |-> comprobantes'])
    /\ pc' = "return"
    /\ UNCHANGED <<globals, loopVars, buscarVars, extractVars, jobVars>>

NextRepeat == CallRepeat

SpecRepeat == InitRepeat /\ [][NextRepeat]_vars

(***************************************************************************)
(* SpecNeto: buscar_valor_neto on one text                                 *)
(***************************************************************************)
\* What stands before the amount.
NetoLabels ==
    { <<>>,
      <<"N","E","T","O"," ">>,
      <<"N","E","T","O"," ","$"," ">>,
      <<"n","e","t","o",":"," ","$">>,
      <<"N","E","T","0"," ">>,
      <<"T","O","T","A","L",":"," ">>,
      <<"N","E","T","O","\n","$","\n">>,
      <<"I","V","A"," ","1","9","%"," ","N","E","T","O">>,
      <<"S","U","B","T","O","T","A","L"," ",":"," ">> }

\* The amounts as the OCR gives them: both conventions of separators, no
\* separators, blanks between the groups.
NetoAmounts ==
    { <<>>,
      <<"1","6",".","2","2","0",".","1","6","7",",","0","0">>,
      <<"4",",","6","8","8",".","0","7">>,
      <<"5","3","6","8","0","0">>,
      <<"1","6",","," ","2","2","0",","," ","1","6","7"," ","."," ","0","0">>,
      <<"1","6",",","2","2","0",",","1","6","7",".","0","0">>,
      <<"1","6"," ","2","2","0"," ","1","6","7"," ","0","0">>,
      <<"1","6","2","2","0","1","6","7","0","0">>,
      <<"5","3","6","8","0","0",".","0","0">>,
      <<"5","3","6",",","8","0","0",".","0","0">>,
      <<"1","2",".","5","0">>,
      <<"1",".","2","3","4",".","5","6","7",".","8","9","0",",","1","2">>,
      <<"1","6","2","2","0","1","6","7","0",",","5">>,
      <<"1","6",",","2","2","0"," ",",","1","6","7",".","0","0">> }

\* What follows the amount.
NetoSuffixes ==
    { <<>>,
      <<"9">>,
      <<" ","T","O","T","A","L",":"," ","4",",","6","8","8",".","0","7">>,
      <<" ","1",",","2","3","4",",","5","6","7",".","8","9">> }

NetoTexts == { l \o a \o x : l \in NetoLabels, a \in NetoAmounts, x \in NetoSuffixes }

InitNeto ==
    /\ pc = "call"
    /\ NoLoop
    /\ DEPENDENCIES_OK = TRUE
    /\ OCR_ENGINE = "none"
    /\ texto \in NetoTexts
    /\ doc = Pending
    /\ valor_neto = Pending
    /\ NoExtract
    /\ NoDetect
    /\ NoJob

CallNeto ==
    /\ pc = "call"
    /\ pc' = "return"
    /\ valor_neto' = buscar_valor_neto(texto)
    /\ UNCHANGED <<globals, loopVars, texto, doc, extractVars, detectVars, jobVars>>

NextNeto == CallNeto

SpecNeto == InitNeto /\ [][NextNeto]_vars

(***************************************************************************)
(* SpecValor: one request to extract_valor_neto                            *)
(***************************************************************************)
\* 'NETO $ 4,688.07', 'NETO 12.50', 'NETO 16.220.167,00'
TextNeto == <<"N","E","T","O"," ","$"," ","4",",","6","8","8",".","0","7">>
TextNetoSmall == <<"N","E","T","O"," ","1","2",".","5","0">>
TextNetoPoints == <<"N","E","T","O"," ","1","6",".","2","2","0",".","1","6","7",",","0","0">>

\* The answers of the calls on one image: no text at any call, a value at
\* the second call after the first raised, a value too small at every call,
\* every call raising.
NetoOcrBlank == [k \in 1..7 |-> <<>>]
NetoOcrSecond == [k \in 1..7 |-> IF k = 1 THEN Raised
                                 ELSE IF k = 2 THEN TextNeto ELSE <<>>]
NetoOcrSmall == [k \in 1..7 |-> TextNetoSmall]
NetoOcrRaises == [k \in 1..7 |-> Raised]
NetoOcrPoints == [k \in 1..7 |-> IF k = 1 THEN TextNetoPoints ELSE <<>>]

NetoPage(render, prep, ocr) ==
    [render |-> render, w |-> 1000, h |-> 1400, prep |-> prep, ocr |-> ocr]

\* The pages of the pdfs: one whose rendering raises, one whose ROI cannot
\* be preprocessed, one with no text, one with a value on the binary ROI,
\* one with a value on the original ROI only, and one with a value too small.
NetoPages ==
    { NetoPage("raise", "ok", <<NetoOcrBlank, NetoOcrBlank, NetoOcrBlank>>),
      NetoPage("ok", "raise", <<NetoOcrSecond, NetoOcrBlank, NetoOcrBlank>>),
      NetoPage("ok", "ok", <<NetoOcrBlank, NetoOcrRaises, NetoOcrBlank>>),
      NetoPage("ok", "ok", <<NetoOcrSecond, NetoOcrBlank, NetoOcrBlank>>),
      NetoPage("ok", "ok", <<NetoOcrRaises, NetoOcrSmall, NetoOcrPoints>>),
      NetoPage("ok", "ok", <<NetoOcrSmall, NetoOcrSmall, NetoOcrSmall>>) }

\* file.filename of the requests.
Filenames == { <<"a", ".", "p", "d", "f">>, <<"A", ".", "P", "D", "F">>,
               <<"a", ".", "p", "n", "g">> }

InitValor ==
    /\ pc = "validate"
    /\ NoLoop
    /\ DEPENDENCIES_OK \in BOOLEAN
    /\ OCR_ENGINE \in Engines
    /\ NoBuscar
    /\ NoExtract
    /\ NoDetect
    /\ \E f \in Filenames, k \in {"pdf", "garbage"}, d \in BOOLEAN :
          request = [filename |-> f, file |-> k, debug |-> d]
    /\ session_dir = FALSE /\ temp_file = FALSE /\ files = <<>>
    /\ pdf_len = 0 /\ pdf_page_idx = 0 /\ pages = <<>> /\ renders = <<>>
    /\ extracted_comprobantes = <<>>
    /\ resultados = <<>>
    /\ response = <<>>

\* Lines 447-458: the two checks that raise before anything is created.
ValidateValor ==
    /\ pc = "validate"
    /\ IF ~DEPENDENCIES_OK
       THEN response' = ErrorResponse(503) /\ pc' = "done"
       ELSE IF ~EndsWithPdf(request.filename)
       THEN response' = ErrorResponse(400) /\ pc' = "done"
       ELSE response' = response /\ pc' = "save"
    /\ UNCHANGED <<globals, loopVars, buscarVars, extractVars, detectVars, request, renders,
                   sessionVars, pdf_len, pdf_page_idx, pages,
                   extracted_comprobantes, resultados>>

\* Lines 460-468: the temporary directory and the copy of the upload.
SaveUpload ==
    /\ pc = "save"
    /\ temp_file' = TRUE
    /\ pc' = "open"
    /\ UNCHANGED <<globals, loopVars, buscarVars, extractVars, detectVars, request, renders,
                   session_dir, files, pdf_len, pdf_page_idx, pages,
                   extracted_comprobantes, resultados, response>>

\* Lines 329-336: process_pdf_for_neto opens the document; bytes that are no
\* pdf raise into the outer except, which returns [].
OpenValor ==
    /\ pc = "open"
    /\ resultados' = <<>>
    /\ pdf_page_idx' = 0
    /\ IF request.file = "pdf"
       THEN /\ \E n \in 1..MaxPages : pdf_len' = n
            /\ pc' = "page"
       ELSE /\ pdf_len' = pdf_len
            /\ pc' = "respond"
    /\ UNCHANGED <<globals, loopVars, buscarVars, extractVars, detectVars, request, renders,
                   sessionVars, pages, extracted_comprobantes, response>>

\* page.render(scale=300/72, rotation=0): the scale as a fraction.
neto_render_scale == [num |-> 300, den |-> 72]

\* Lines 341-380: one turn of the loop over the pages.
ProcessValorPage ==
    /\ pc = "page"
    /\ pdf_page_idx < pdf_len
    /\ renders' = Append(renders, [page |-> pdf_page_idx,
                                   scale |-> neto_render_scale, ok |-> TRUE])
    /\ \E img \in NetoPages :
          /\ pages' = Append(pages, img)
          /\ resultados' = Append(resultados,
                                  PageResult(img, pdf_page_idx + 1,
                                             OCR_ENGINE, DEPENDENCIES_OK))
    /\ pdf_page_idx' = pdf_page_idx + 1
    /\ UNCHANGED <<pc, globals, loopVars, buscarVars, extractVars, detectVars,
                   request, sessionVars, pdf_len, extracted_comprobantes,
                   response>>

\* Line 387: return resultados.
ReturnValor ==
    /\ pc = "page"
    /\ pdf_page_idx = pdf_len
    /\ pc' = "respond"
    /\ UNCHANGED <<globals, loopVars, buscarVars, extractVars, detectVars, jobVars>>

\* Lines 478-500 and 508-514: the response, and the finally that removes the
\* temporary directory unless debug is set.
RespondValor ==
    /\ pc = "respond"
    /\ response' = NetoResponse(resultados)
    /\ temp_file' = request.debug
    /\ pc' = "done"
    /\ UNCHANGED <<globals, loopVars, buscarVars, extractVars, detectVars, request, renders,
                   session_dir, files, pdf_len, pdf_page_idx, pages,
                   extracted_comprobantes, resultados>>

NextValor ==
    \/ ValidateValor
    \/ SaveUpload
    \/ OpenValor
    \/ ProcessValorPage
    \/ ReturnValor
    \/ RespondValor

SpecValor == InitValor /\ [][NextValor]_vars

(***************************************************************************)
(* SpecLoop: requests submitted concurrently to the one server process.    *)
(* Every endpoint of src/main.py is an async def, so its handler is a      *)
(* coroutine of the event loop of the process; run_image_extractor         *)
(* (439-575) has no await in its body, and the OCR calls of                *)
(* extract_documento_with_ocr (257-283) are plain blocking calls made from *)
(* it.                                                                     *)
(***************************************************************************)
\* The most requests in flight.
MaxRequests == 3

\* The most OCR calls of one request, over its regions and configs.
MaxOcrCalls == 2

Requests == 1..MaxRequests

\* Handlers run in a pool of threads, any number of them at a time.
LoopFree_Threadpool == TRUE

\* The event loop takes up the handler of a request only when it runs no
\* other: a coroutine that never awaits runs to its return.
LoopFree == loop = {}

InitLoop ==
    /\ pc = "serve"
    /\ DEPENDENCIES_OK = TRUE
    /\ OCR_ENGINE \in Engines
    /\ NoBuscar
    /\ NoExtract
    /\ NoDetect
    /\ NoJob
    /\ loop = {}
    /\ handlers = [r \in Requests |-> [at |-> "idle", calls |-> 0]]
    /\ ocr_in_progress = {}

\* A client submits request r; the server receives the upload while the
\* handlers of other requests may be running.
Submit(r) ==
    /\ handlers[r].at = "idle"
    /\ handlers' = [handlers EXCEPT ![r].at = "submitted"]
    /\ UNCHANGED <<pc, globals, buscarVars, extractVars, detectVars, jobVars,
                   loop, ocr_in_progress>>

\* The event loop starts the handler of a submitted request.
Dispatch(r) ==
    /\ handlers[r].at = "submitted"
    /\ LoopFree
    /\ loop' = loop \cup {r}
    /\ handlers' = [handlers EXCEPT ![r].at = "running"]
    /\ UNCHANGED <<pc, globals, buscarVars, extractVars, detectVars, jobVars,
                   ocr_in_progress>>

\* Lines 261-276: the handler of r, in extract_documento_with_ocr, calls
\* pytesseract.image_to_string or OCR_READER.readtext.
StartOcr(r) ==
    /\ r \in loop
    /\ handlers[r].at = "running"
    /\ OCR_ENGINE # "none"
    /\ handlers[r].calls < MaxOcrCalls
    /\ handlers' = [handlers EXCEPT ![r].at = "ocr"]
    /\ ocr_in_progress' = ocr_in_progress \cup {r}
    /\ UNCHANGED <<pc, globals, buscarVars, extractVars, detectVars, jobVars,
                   loop>>

\* The OCR call returns or raises.
ReturnOcr(r) ==
    /\ r \in loop
    /\ handlers[r].at = "ocr"
    /\ handlers' = [handlers EXCEPT ![r].at = "running",
                                    ![r].calls = handlers[r].calls + 1]
    /\ ocr_in_progress' = ocr_in_progress \ {r}
    /\ UNCHANGED <<pc, globals, buscarVars, extractVars, detectVars, jobVars,
                   loop>>

\* Lines 553, 556 and 572: the handler returns or raises, and the event loop
\* is free for the next one.
Finish(r) ==
    /\ r \in loop
    /\ handlers[r].at = "running"
    /\ handlers' = [handlers EXCEPT ![r].at = "answered"]
    /\ loop' = loop \ {r}
    /\ UNCHANGED <<pc, globals, buscarVars, extractVars, detectVars, jobVars,
                   ocr_in_progress>>

NextLoop ==
    \E r \in Requests :
        \/ Submit(r)
        \/ Dispatch(r)
        \/ StartOcr(r)
        \/ ReturnOcr(r)
        \/ Finish(r)

SpecLoop == InitLoop /\ [][NextLoop]_vars

(***************************************************************************)
(* Claims about buscar_numero_documento                                    *)
(***************************************************************************)
\* The matches of pattern p in t whose zero-stripped digits have 6 digits or
\* more, in the order of the text.
AcceptedMatches(p, t) ==
    SelectSeq(FindAll(p, t), LAMBDA g : Len(Lstrip0(g)) >= 6)

\* The zero-stripped digits of the first accepted match of the first pattern,
\* from the k-th on, that has an accepted match; None when no pattern has one.
RECURSIVE FirstAcceptedFrom(_, _)
FirstAcceptedFrom(t, k) ==
    IF k > Len(patterns) THEN None
    ELSE IF AcceptedMatches(patterns[k], t) # <<>>
         THEN Lstrip0(AcceptedMatches(patterns[k], t)[1])
         ELSE FirstAcceptedFrom(t, k + 1)

\* C2: buscar_numero_documento returns the zero-stripped digits of the first
\* match, in the priority order of the patterns, that satisfies the acceptance
\* rule, and returns nothing only when no match of any pattern satisfies it
\* (a rejected number followed by a valid one resolves to the valid one).
C2_FirstAcceptedMatch ==
    pc = "return" => doc = FirstAcceptedFrom(Clean(texto), 1)

\* C3: when the text holds the label 'Documento' followed by 8 to 15 digits
\* with 6 or more digits after the leading zeros, buscar_numero_documento
\* returns those digits (of the first such labelled number) zero-stripped.
C3_LabelledNumber ==
    pc = "return" =>
        LET ms == AcceptedMatches(patterns[1], Clean(texto))
        IN  ms # <<>> => doc = Lstrip0(ms[1])

Attempts(engine) ==
    CASE engine = "pytesseract" -> 1..4
      [] engine = "easyocr" -> 1..1
      [] OTHER -> {}

\* OCR yields no accepted number: no backend, or every call raises or gives a
\* text (the empty one included) in which no number is found.
NoAcceptedNumber(img, engine) ==
    \A k \in Attempts(engine) :
        img.ocr[k] = Raised \/ buscar_numero_documento(img.ocr[k]) = None

\* n written with two digits, or with its own digits from 100 on.
TwoDigits(n) ==
    LET d == [i \in 0..9 |-> <<"0","1","2","3","4","5","6","7","8","9">>[i + 1]]
    IN  IF n < 100 THEN <<d[n \div 10], d[n % 10]>>
        ELSE <<d[n \div 100], d[(n \div 10) % 10], d[n % 10]>>

\* 'PAG' + page + '_COMP' + region.
PagComp(page, region) ==
    <<"P","A","G">> \o TwoDigits(page) \o <<"_","C","O","M","P">> \o TwoDigits(region)

\* C1: for a crop with a non-empty document ROI (whose preprocessing
\* succeeds), when OCR yields no accepted number (no backend, empty text, or
\* every attempt failing) extract_documento_from_image returns exactly
\* PAG{page:02}_COMP{region:02}, and does not raise.
C1_FallbackWhenNoNumber ==
    ( /\ pc = "return"
      /\ RoiSize(crop.img.w, crop.img.h) > 0
      /\ crop.img.prep = "ok"
      /\ NoAcceptedNumber(crop.img, OCR_ENGINE) )
    => ext = PagComp(crop.page_idx, crop.comp_idx)

\* Every pytesseract call has raised on page 1, region 9, and the call has
\* returned PAG01_COMP09.
C1_Witness ==
    /\ pc = "return"
    /\ OCR_ENGINE = "pytesseract"
    /\ \A k \in 1..4 : crop.img.ocr[k] = Raised
    /\ crop.img.prep = "ok"
    /\ RoiSize(crop.img.w, crop.img.h) > 0
    /\ ext = <<"P","A","G","0","1","_","C","O","M","P","0","9">>

\* C5: when the ROI inside the crop has zero area,
\* extract_documento_from_image returns PAG{page:02}_COMP{region:02}.
C5_EmptyRoiFallback ==
    (pc = "return" /\ RoiSize(crop.img.w, crop.img.h) = 0)
    => ext = PagComp(crop.page_idx, crop.comp_idx)

(***************************************************************************)
(* Claims about detect_comprobantes_in_image                               *)
(***************************************************************************)
IsDigits(s) == \A k \in 1..Len(s) : s[k] \in Digits

\* C6: every record detect_comprobantes_in_image returns carries a
\* documento_id that is a non-empty string: the ROI of its crop is not empty,
\* and the id is an OCR-derived number or the fallback identifier of its page
\* and region.
C6_DocumentoIdPresent ==
    pc = "return" =>
        \A i \in 1..Len(comprobantes) :
            LET r == comprobantes[i]
            IN  /\ r.documento_id \notin {None, Raised, <<>>}
                /\ RoiSize(r.coordinates.width, r.coordinates.height) > 0
                /\ \/ r.documento_id = PagComp(det.page_idx, r.id)
                   \/ IsDigits(r.documento_id)

\* Two records have been returned, one with a number read by OCR and one
\* with the fallback identifier.
C6_Witness ==
    /\ pc = "return"
    /\ Len(comprobantes) = 2
    /\ IsDigits(comprobantes[1].documento_id)
    /\ comprobantes[2].documento_id = PagComp(det.page_idx, 2)

\* C7: the effective minimum area is max(5000, floor(pageArea / 50)) when
\* min_area is strictly greater than 5% of pageArea and min_area otherwise
\* (also at exactly 5%); for pageArea = 100000 and min_area = 50000 it is 5000.
C7_AdaptiveArea ==
    (pc = "return" /\ DEPENDENCIES_OK /\ det.page_img.decoded) =>
        LET pageArea == det.page_img.w * det.page_img.h
            fifty    == CHOOSE q \in 0..pageArea :
                            50 * q <= pageArea /\ pageArea < 50 * (q + 1)
        IN  /\ 100 * det.min_area > 5 * pageArea
                => adaptive_min_area = Max({5000, fifty})
            /\ 100 * det.min_area <= 5 * pageArea
                => adaptive_min_area = det.min_area
            /\ (pageArea = 100000 /\ det.min_area = 50000)
                => adaptive_min_area = 5000

\* A call with pageArea = 100000 and min_area = 50000 has used 5000.
C7_Witness ==
    /\ pc = "return"
    /\ det.page_img.decoded
    /\ det.page_img.w * det.page_img.h = 100000
    /\ det.min_area = 50000
    /\ adaptive_min_area = 5000

\* C9: every record's bounding box lies within the image, has positive width
\* and height, and satisfies the filters: width > 50, height > 50,
\* 0.3 <= width / height <= 3.0, and it is the box of a contour of the page
\* whose area is at least the effective minimum area.
C9_BoxWithinFilters ==
    pc = "return" =>
        \A i \in 1..Len(comprobantes) :
            LET b == comprobantes[i].coordinates
            IN  /\ b.x >= 0 /\ b.y >= 0
                /\ b.x + b.width <= det.page_img.w
                /\ b.y + b.height <= det.page_img.h
                /\ b.width > 0 /\ b.height > 0
                /\ b.width > 50 /\ b.height > 50
                /\ 10 * b.width >= 3 * b.height
                /\ b.width <= 3 * b.height
                /\ \E k \in 1..Len(det.page_img.contours) :
                        LET c == det.page_img.contours[k]
                        IN  /\ <<c.x, c.y, c.w, c.h>> = <<b.x, b.y, b.width, b.height>>
                            /\ c.area >= adaptive_min_area

\* Records have been returned for a box of ratio 3.0 and a box of ratio 0.3.
C9_Witness ==
    /\ pc = "return"
    /\ Len(comprobantes) = 2
    /\ comprobantes[1].coordinates = [x |-> 120, y |-> 10, width |-> 60, height |-> 200]
    /\ comprobantes[2].coordinates = [x |-> 150, y |-> 130, width |-> 180, height |-> 60]

(***************************************************************************)
(* Claims about run_image_extractor                                        *)
(***************************************************************************)
\* The page of a record of extracted_comprobantes: an image file is one page.
PageOf(r) == IF "page" \in DOMAIN r THEN r.page ELSE 1

\* The records of page p, in the order of extracted_comprobantes.
RecordsOfPage(p) == SelectSeq(extracted_comprobantes, LAMBDA r : PageOf(r) = p)

\* C8: on each page the records have the ids 1, 2, ..., n in this order, the
\* boxes are in ascending lexicographic order of (y, x), each is the box of
\* an accepted contour of that page, and the numbering restarts at 1 on
\* every page of a pdf.
C8_IdsInReadingOrder ==
    \A p \in 1..Len(pages) :
        LET rs  == RecordsOfPage(p)
            min == AdaptiveMinArea(request.min_area, pages[p].w, pages[p].h)
            acc == { k \in 1..Len(pages[p].contours) :
                        LET c == pages[p].contours[k]
                        IN  c.area > min /\ c.w > 50 /\ c.h > 50
                            /\ 10 * c.w >= 3 * c.h /\ c.w <= 3 * c.h }
        IN  /\ \A i \in 1..Len(rs) : rs[i].id = i
            /\ \A i \in 1..Len(rs), j \in 1..Len(rs) :
                    i < j => \/ rs[i].coordinates.y < rs[j].coordinates.y
                             \/ /\ rs[i].coordinates.y = rs[j].coordinates.y
                                /\ rs[i].coordinates.x <= rs[j].coordinates.x
            /\ Len(rs) \in {0, Cardinality(acc)}
            /\ Len(rs) > 0 =>
                    \A k \in acc : \E i \in 1..Len(rs) :
                        /\ rs[i].coordinates.x = pages[p].contours[k].x
                        /\ rs[i].coordinates.y = pages[p].contours[k].y
            /\ \A i \in 1..Len(rs) : \E k \in acc :
                    LET c == pages[p].contours[k]
                    IN  rs[i].coordinates =
                            [x |-> c.x, y |-> c.y, width |-> c.w, height |-> c.h]

\* A pdf of two pages has been processed, with three records on page 1 and
\* the record of id 1 of page 2 after them.
C8_Witness ==
    /\ pc = "done"
    /\ Len(pages) = 2
    /\ Len(RecordsOfPage(1)) = 3
    /\ Len(extracted_comprobantes) >= 4
    /\ extracted_comprobantes[3].id = 3
    /\ extracted_comprobantes[4].id = 1
    /\ extracted_comprobantes[4].page = 2

\* The source is no valid input: a content type that is not supported, or
\* bytes that are not what the content type says (undecodable, corrupt).
InvalidInput ==
    \/ request.content_type \notin allowed_types
    \/ request.content_type = "application/pdf" /\ request.file # "pdf"
    \/ request.content_type # "application/pdf" /\ request.file # "image"

\* C10: an invalid input (unsupported, undecodable or corrupt) is never
\* reported as a successful result, so its outcome differs from that of a
\* page with zero detected regions, which is an empty successful result.
C10_InvalidInputIsNoSuccess ==
    (pc = "done" /\ InvalidInput) => response.status # 200

\* The records detect_comprobantes_in_image gives for the p-th page of the
\* request, as run_image_extractor leaves them in the list.
ExpectedOfPage(p) ==
    LET found == detect_comprobantes_in_image(pages[p], request.min_area, p,
                                              OCR_ENGINE, DEPENDENCIES_OK)
    IN  [i \in 1..Len(found) |-> SavedPdf(found[i], p)]

\* The pdf requests: a pdf declared as one.
PdfJob == request.content_type = "application/pdf" /\ request.file = "pdf"

\* C11: in a pdf job whose pages could all be rendered so far, a page on
\* which detection raises contributes no record,
\* every page processed so far, before or after it, has exactly its own
\* records in the list, every page of the pdf gets processed and the job
\* answers with a successful result.
C11_PageFailureIsolated ==
    ( /\ PdfJob /\ DEPENDENCIES_OK /\ pc \in {"page", "respond", "done"}
      /\ \A i \in 1..Len(renders) : renders[i].ok ) =>
        /\ Len(pages) = pdf_page_idx
        /\ \A p \in 1..Len(pages) :
               /\ pages[p].fail => RecordsOfPage(p) = <<>>
               /\ RecordsOfPage(p) = ExpectedOfPage(p)
        /\ \A i \in 1..Len(extracted_comprobantes) :
               extracted_comprobantes[i].page \in 1..Len(pages)
        /\ pc \in {"respond", "done"} => Len(pages) = pdf_len
        /\ pc = "done" => response.status = 200

\* A pdf of three pages has been answered successfully: detection raised on
\* page 2, and the records of pages 1 and 3 are in the response.
C11_Witness ==
    /\ PdfJob
    /\ pc = "done"
    /\ Len(pages) = 3
    /\ pages[2].fail
    /\ Len(RecordsOfPage(1)) = 3
    /\ Len(RecordsOfPage(3)) >= 1
    /\ response.status = 200
    /\ ~request.individual_comprobantes
    /\ response.total_comprobantes = Len(RecordsOfPage(1)) + Len(RecordsOfPage(3))

(***************************************************************************)
(* Claims about failures inside detect_comprobantes_in_image               *)
(***************************************************************************)
\* The contours of the page of the call that pass the filters.
AcceptedOfCall ==
    { k \in 1..Len(det.page_img.contours) :
        LET c == det.page_img.contours[k]
        IN  /\ c.area > adaptive_min_area /\ c.w > 50 /\ c.h > 50
            /\ 10 * c.w >= 3 * c.h /\ c.w <= 3 * c.h }

\* The call went through the detection steps: the page is an image and no
\* blur / threshold / contour step raised.
DetectionDone ==
    pc = "return" /\ DEPENDENCIES_OK /\ det.page_img.decoded /\ ~det.page_img.fail

\* C12: when the resolution of one accepted region fails (its preprocessing
\* or its OCR raises), that region is returned with the fallback identifier
\* and the other accepted regions of the page are returned as well: the list
\* has one record per accepted region.
C12_RegionFailureIsolated ==
    DetectionDone =>
        /\ Len(comprobantes) = Cardinality(AcceptedOfCall)
        /\ \A i \in 1..Len(comprobantes) :
               comprobantes[i].roi_image.prep = "raise" =>
                   comprobantes[i].documento_id = PagComp(det.page_idx, i)

\* The same for the pages none of whose accepted regions raises while it is
\* preprocessed (the OCR calls may raise).
C12_HoldsWithoutPreprocessingError ==
    ( /\ DetectionDone
      /\ \A k \in AcceptedOfCall : det.page_img.contours[k].prep = "ok" )
    => Len(comprobantes) = Cardinality(AcceptedOfCall)

(***************************************************************************)
(* Claims about extract_documento_with_ocr                                 *)
(***************************************************************************)
\* The calls, of the four in the order of the configurations, whose text
\* yields an accepted document number.
GoodCalls(ocr) ==
    { k \in 1..4 : ocr[k] # Raised /\ buscar_numero_documento(ocr[k]) # None }

\* C13: with pytesseract the configurations are tried in the order --psm 6,
\* --psm 7, --psm 8, --psm 13; the loop stops at the first one whose text
\* yields an accepted number, which is the result, goes on after a call that
\* raises or yields no accepted number, makes at most 4 calls, and ends with
\* no result (the region gets the fallback identifier) when all are exhausted.
C13_ConfigCascade ==
    ( /\ pc = "return"
      /\ OCR_ENGINE = "pytesseract"
      /\ RoiSize(crop.img.w, crop.img.h) > 0
      /\ crop.img.prep = "ok" )
    => LET ocr   == crop.img.ocr
           good  == GoodCalls(ocr)
           n     == IF good = {} THEN 4
                    ELSE CHOOSE k \in good : \A j \in good : k <= j
           calls == TesseractCalls(ocr, 1)
       IN  /\ calls = SubSeq(<<"--psm 6", "--psm 7", "--psm 8", "--psm 13">>, 1, n)
           /\ Len(calls) <= 4
           /\ good # {} =>
                  /\ extract_documento_with_ocr(ocr, OCR_ENGINE)
                        = buscar_numero_documento(ocr[n])
                  /\ ext = buscar_numero_documento(ocr[n])
           /\ good = {} =>
                  /\ extract_documento_with_ocr(ocr, OCR_ENGINE) = None
                  /\ ext = PagComp(crop.page_idx, crop.comp_idx)

\* The first call has raised, the second has given no text, the third a
\* number that is too short, and the fourth the number that is returned.
C13_Witness ==
    /\ pc = "return"
    /\ OCR_ENGINE = "pytesseract"
    /\ RoiSize(crop.img.w, crop.img.h) > 0
    /\ crop.img.prep = "ok"
    /\ crop.img.ocr[1] = Raised
    /\ crop.img.ocr[2] = <<>>
    /\ crop.img.ocr[3] = <<"D","o","c",":">> \o Zeros(6) \o NumTail(2)
    /\ crop.img.ocr[4] = TextDocumento
    /\ TesseractCalls(crop.img.ocr, 1) = configs
    /\ ext = <<"8","0","1","3","6","3","6","2","7">>

Canonical(v) ==
    /\ Len(v) >= 4
    /\ v[Len(v) - 2] = "."
    /\ \A i \in (1..Len(v)) \ {Len(v) - 2} : v[i] \in Digits

\* C15: every value buscar_valor_neto returns is in canonical form (digits,
\* exactly one period, exactly two fractional digits, no commas or blanks),
\* whichever convention of separators the source uses: 'NETO 16.220.167,00'
\* gives '16220167.00', 'NETO 4,688.07' gives '4688.07' and 'NETO 536800'
\* gives '536800.00'.
C15_CanonicalMoney ==
    pc = "return" =>
        /\ valor_neto # None => Canonical(valor_neto)
        /\ texto = <<"N","E","T","O"," ","1","6",".","2","2","0",".","1","6","7",",","0","0">> => valor_neto = <<"1","6","2","2","0","1","6","7",".","0","0">>
        /\ texto = <<"N","E","T","O"," ","4",",","6","8","8",".","0","7">> => valor_neto = <<"4","6","8","8",".","0","7">>
        /\ texto = <<"N","E","T","O"," ","5","3","6","8","0","0">> => valor_neto = <<"5","3","6","8","0","0",".","0","0">>

\* The characters of s that are no whitespace.
Unspaced(s) == SelectSeq(s, LAMBDA c : c \notin Whitespace)

\* Whether v occurs in s as a run of consecutive characters.
OccursIn(v, s) ==
    \E i \in 1..(Len(s) - Len(v) + 1) : SubSeq(s, i, i + Len(v) - 1) = v

\* C16: no pattern returns a hard-coded constant: the value returned is made
\* of the characters matched in the text (it occurs in the text once the
\* whitespace is taken out of both), so digits after NETO that begin with
\* 16 220 167 00 and go on are not reported as '16,220,167.00'.
C16_NoLiteralShortcut ==
    (pc = "return" /\ valor_neto # None) =>
        OccursIn(valor_neto, Unspaced(texto))

(***************************************************************************)
(* Claims about extract_valor_neto                                         *)
(***************************************************************************)
\* The request went past the checks of dependencies and file name.
ValorAccepted == DEPENDENCIES_OK /\ EndsWithPdf(request.filename)

\* C17: a page on which no value is found (no pattern matches, or there is
\* no OCR backend) is reported with an absent value and is no error: in
\* every page result found is true exactly when valor_neto is not null,
\* valores_encontrados is the number of page results with found true,
\* total_pages is the number of page results, and the request is answered
\* successfully.
C17_AbsentValueIsNoError ==
    /\ \A i \in 1..Len(resultados) :
           /\ resultados[i].found <=> resultados[i].valor_neto # None
           /\ resultados[i].page = i
           /\ OCR_ENGINE = "none" => ~resultados[i].found
    /\ (pc = "done" /\ ValorAccepted) =>
           /\ response.status = 200
           /\ response.results = resultados
           /\ response.total_pages = Len(resultados)
           /\ response.valores_encontrados =
                 Cardinality({ i \in 1..Len(resultados) : resultados[i].found })
           /\ request.file = "pdf" => response.total_pages = pdf_len

\* A pdf of three pages has been answered with a value on page 2 only: no
\* text was read on page 1 and the value on page 3 is too small.
C17_Witness ==
    /\ pc = "done"
    /\ response.status = 200
    /\ response.total_pages = 3
    /\ response.valores_encontrados = 1
    /\ ~resultados[1].found /\ resultados[1].valor_neto = None
    /\ resultados[2].found
    /\ resultados[2].valor_neto = <<"4", ",", "6", "8", "8", ".", "0", "7">>
    /\ ~resultados[3].found
    /\ pages[3].ocr[1] = NetoOcrSmall

(***************************************************************************)
(* Claims about the responses of run_image_extractor                       *)
(***************************************************************************)
\* The request has been answered successfully.
Answered == pc = "done" /\ response.status = 200

BoxOnPage(r, p) ==
    \E k \in 1..Len(pages[p].contours) :
        LET c == pages[p].contours[k]
        IN  r.coordinates = [x |-> c.x, y |-> c.y, width |-> c.w, height |-> c.h]

\* C19: every record of the result carries its page number: for a pdf the
\* 1-based index of the page it was detected on, and 1 for an image file.
C19_RecordCarriesPage ==
    \A i \in 1..Len(extracted_comprobantes) :
        LET r == extracted_comprobantes[i]
        IN  /\ "page" \in DOMAIN r
            /\ r.page \in 1..Len(pages)
            /\ BoxOnPage(r, r.page)
            /\ request.content_type # "application/pdf" => r.page = 1

\* The same for the records of the pdfs only.
C19_HoldsForPdf ==
    request.content_type = "application/pdf" =>
        \A i \in 1..Len(extracted_comprobantes) :
            LET r == extracted_comprobantes[i]
            IN  /\ "page" \in DOMAIN r
                /\ r.page \in 1..Len(pages)
                /\ BoxOnPage(r, r.page)

\* The crop of record r: the content of its page under its box.
CropOf(r) ==
    LET c == pages[PageOf(r)].contours[
                 CHOOSE k \in 1..Len(pages[PageOf(r)].contours) :
                     LET d == pages[PageOf(r)].contours[k]
                     IN  r.coordinates =
                             [x |-> d.x, y |-> d.y, width |-> d.w, height |-> d.h]]
    IN  [w |-> c.w, h |-> c.h, prep |-> c.prep, ocr |-> c.ocr]

\* The last record of the list stored under the file name n.
LastWith(n) ==
    extracted_comprobantes[
        Max({ i \in 1..Len(extracted_comprobantes) :
                extracted_comprobantes[i].filename = n })]

\* C20: each crop is stored under <documento_id>.png; records of the session
\* with the same documento_id, of one page or of different pages, report the
\* same file name, the later crop overwrites the earlier without error, and
\* the session directory holds exactly one file per distinct documento_id,
\* whose content is the crop of the last record processed with that id.
C20_LastCropWins ==
    (pc \in {"page", "respond"} \/ Answered) =>
        /\ \A i \in 1..Len(extracted_comprobantes) :
               extracted_comprobantes[i].filename =
                   extracted_comprobantes[i].documento_id \o <<".", "p", "n", "g">>
        /\ DOMAIN files =
               { extracted_comprobantes[i].filename :
                     i \in 1..Len(extracted_comprobantes) }
        /\ Cardinality(DOMAIN files) =
               Cardinality({ extracted_comprobantes[i].documento_id :
                                 i \in 1..Len(extracted_comprobantes) })
        /\ \A n \in DOMAIN files : files[n] = CropOf(LastWith(n))

\* A request has been answered in which two records have the same
\* documento_id and different crops: the directory has fewer files than
\* there are records, and the file of that id is the crop of the later one.
C20_Witness ==
    /\ Answered
    /\ session_dir
    /\ Cardinality(DOMAIN files) < Len(extracted_comprobantes)
    /\ \E i \in 1..Len(extracted_comprobantes), j \in 1..Len(extracted_comprobantes) :
          /\ i < j
          /\ extracted_comprobantes[i].documento_id
                = extracted_comprobantes[j].documento_id
          /\ extracted_comprobantes[i].filename = extracted_comprobantes[j].filename
          /\ CropOf(extracted_comprobantes[i]) # CropOf(extracted_comprobantes[j])
          /\ LastWith(extracted_comprobantes[j].filename) = extracted_comprobantes[j]
          /\ files[extracted_comprobantes[j].filename]
                = CropOf(extracted_comprobantes[j])

(***************************************************************************)
(* Claims about the loop over the pages of a pdf                           *)
(***************************************************************************)
\* The number of records the pages 1..p of the request give.
RECURSIVE SumOfPages(_)
SumOfPages(p) == IF p = 0 THEN 0 ELSE SumOfPages(p - 1) + Len(ExpectedOfPage(p))

\* Every page rendered so far is processed fully: its records are in the
\* list and the crop of each is saved in the session directory.
PagesProcessedFully ==
    /\ \A p \in 1..Len(pages) : RecordsOfPage(p) = ExpectedOfPage(p)
    /\ Len(extracted_comprobantes) = SumOfPages(Len(pages))
    /\ \A i \in 1..Len(extracted_comprobantes) :
           extracted_comprobantes[i].filename \in DOMAIN files

\* The pages are rendered in ascending order, one at a time, and the pages
\* rendered before are processed fully when the next one is rendered.
RenderInOrder ==
    pages' # pages =>
        /\ Len(pages') = Len(pages) + 1
        /\ renders'[Len(renders')].page = Len(pages)
        /\ PagesProcessedFully

\* In the list the records of page p come before those of page q when p < q.
RecordsInPageOrder ==
    \A i, j \in 1..Len(extracted_comprobantes) :
        i < j => extracted_comprobantes[i].page <= extracted_comprobantes[j].page

\* C21: the pages of a pdf are processed in ascending order, each one fully
\* (detection, field resolution, its crops saved) before the next is
\* rendered; the records of a page come before those of every later page,
\* and total_comprobantes of the aggregate result is the sum of the numbers
\* of records of the pages.
C21_PagesInOrder ==
    /\ [](PdfJob => RecordsInPageOrder)
    /\ []((PdfJob /\ pc = "done" /\ response.status = 200
              /\ ~request.individual_comprobantes) =>
             /\ response.total_comprobantes = SumOfPages(pdf_len)
             /\ response.comprobantes = extracted_comprobantes
             /\ PagesProcessedFully)
    /\ [][PdfJob => RenderInOrder]_vars

\* A pdf of three pages has been answered with the records of its first
\* page, of three regions, before those of its third, and none of its second.
C21_Witness ==
    /\ PdfJob
    /\ pc = "done"
    /\ response.status = 200
    /\ ~request.individual_comprobantes
    /\ Len(pages) = 3
    /\ Len(ExpectedOfPage(1)) = 3
    /\ Len(ExpectedOfPage(2)) = 0
    /\ Len(ExpectedOfPage(3)) = 2
    /\ response.total_comprobantes = 5
    /\ response.comprobantes[3].page = 1
    /\ response.comprobantes[4].page = 3

\* C22: every page of a pdf that is handed to the detection of the regions
\* was rendered at the scale of 300 DPI, 300/72 of the 72 DPI of a pdf,
\* whatever the parameters of the request.
C22_RenderedAt300Dpi ==
    \A i \in 1..Len(renders) :
        renders[i].ok => renders[i].scale.num * 72 = 300 * renders[i].scale.den

\* The scale is the same for every page and every request: 2, that is 144 DPI.
C22_FixedScaleOf144Dpi ==
    \A i \in 1..Len(renders) :
        renders[i].scale.num * 72 = 144 * renders[i].scale.den

(***************************************************************************)
(* Claims about the failures that end a whole request                      *)
(***************************************************************************)
\* C23: when the uploaded pdf cannot be opened the request ends with an
\* error, never with a successful result of no page or no record; here for
\* extract_valor_neto and process_pdf_for_neto.
C23_UnopenablePdfIsError ==
    (pc = "done" /\ ValorAccepted /\ request.file # "pdf") =>
        response.status # 200

\* The same for run_image_extractor, where it holds: the request is answered
\* 500 and no page was rendered.
C23_HoldsForImageExtractor ==
    ( /\ pc = "done" /\ DEPENDENCIES_OK
      /\ request.content_type = "application/pdf" /\ request.file # "pdf" ) =>
        /\ response.status = 500
        /\ pages = <<>>

(***************************************************************************)
(* Claims about concurrent requests                                        *)
(***************************************************************************)
\* C24: whatever the interleaving of the requests submitted concurrently, at
\* most one OCR call on the OCR backend of the process is in progress at any
\* time: no OCR call of a request starts while the OCR call of another has
\* not returned.
C24_OneOcrAtATime ==
    /\ Cardinality(ocr_in_progress) <= 1
    /\ ocr_in_progress \subseteq loop
    /\ \A r \in Requests :
           handlers[r].at \in {"running", "ocr"} => ocr_in_progress \subseteq {r}

\* The second OCR call of a request is in progress while another request
\* is submitted and waits, and a third has been answered after OCR calls
\* of its own.
C24_Witness ==
    \E a, b, c \in Requests :
        /\ ocr_in_progress = {a}
        /\ handlers[a].calls = 1
        /\ handlers[b].at = "submitted"
        /\ handlers[c].at = "answered" /\ handlers[c].calls = MaxOcrCalls

\* Nothing of the session is on disk: no session directory, no crop, no
\* temporary copy of the upload.
NoSessionState == ~session_dir /\ ~temp_file /\ DOMAIN files = {}

\* C25: a failed request to run_image_extractor leaves no session state
\* behind: a request rejected for its content type (or for missing
\* dependencies) fails before the session directory and the temporary file
\* are created, and a request that fails while it is processed has its
\* session directory, with the crops already written, and its temporary
\* file removed when the error is reported.
C25_FailureLeavesNothing ==
    /\ []((pc = "done" /\ response.status # 200) => NoSessionState)
    /\ []((pc = "done" /\ response.status \in {400, 503}) =>
             pages = <<>> /\ extracted_comprobantes = <<>>)
    /\ [][(pc = "validate" /\ pc' = "done") =>
              (NoSessionState /\ NoSessionState' /\ response'.status \in {400, 503})]_vars
    /\ [][(pc = "validate" /\ request.content_type \notin allowed_types) =>
              pc' = "done"]_vars

\* A pdf request has been answered 500 after the crops of its first page,
\* of three regions, were written: the second page could not be rendered.
C25_Witness ==
    /\ pc = "done"
    /\ response.status = 500
    /\ Len(pages) = 1
    /\ Len(renders) = 2
    /\ Len(extracted_comprobantes) = 3
    /\ NoSessionState

(***************************************************************************)
(* Claims about the filters and the corrections of the detection           *)
(***************************************************************************)
\* The contours of the page of the call that the filters should accept when
\* the area may equal the effective minimum.
AcceptedAtOrAbove ==
    { k \in 1..Len(det.page_img.contours) :
        LET c == det.page_img.contours[k]
        IN  /\ c.area >= adaptive_min_area /\ c.w > 50 /\ c.h > 50
            /\ 10 * c.w >= 3 * c.h /\ c.w <= 3 * c.h }

\* The bounding box of the k-th contour of the page of the call.
BoxOfContour(k) ==
    LET c == det.page_img.contours[k]
    IN  [x |-> c.x, y |-> c.y, width |-> c.w, height |-> c.h]

\* No region of the page raises while it is preprocessed.
NoPreprocessingError ==
    \A k \in 1..Len(det.page_img.contours) :
        det.page_img.contours[k].prep # "raise"

\* C26: a contour is accepted if and only if its area is greater than or
\* equal to the effective minimum area, its width and its height are
\* greater than 50 and width / height is in [0.3, 3.0]; a contour whose area
\* is exactly the effective minimum area is accepted.
C26_AcceptsAreaAtMinimum ==
    (DetectionDone /\ NoPreprocessingError) =>
        /\ Len(comprobantes) = Cardinality(AcceptedAtOrAbove)
        /\ \A k \in AcceptedAtOrAbove :
               \E i \in 1..Len(comprobantes) :
                   comprobantes[i].coordinates = BoxOfContour(k)

\* The same with an area strictly greater than the effective minimum: what
\* the filters do.
C26_HoldsForAreaAboveMinimum ==
    (DetectionDone /\ NoPreprocessingError) =>
        /\ Len(comprobantes) = Cardinality(AcceptedOfCall)
        /\ \A k \in AcceptedOfCall :
               \E i \in 1..Len(comprobantes) :
                   comprobantes[i].coordinates = BoxOfContour(k)

(***************************************************************************)
(* Claims about the resize of the ROI                                      *)
(***************************************************************************)
\* The narrower dimension of the ROI of the crop of the call.
RoiNarrower ==
    LET s == RoiShape(crop.img.w, crop.img.h)
    IN  IF s.rows < s.cols THEN s.rows ELSE s.cols

\* The call got past the test of the empty ROI.
RoiNotEmpty == pc = "return" /\ RoiSize(crop.img.w, crop.img.h) # 0

\* C27: the ROI is upsampled exactly when its narrower dimension is below
\* 300 px, and the factor is the smallest positive integer s such that s
\* times the narrower dimension is at least 300 (2 for 150, 3 for 100).
C27_SmallestFactorForNarrowerSide ==
    RoiNotEmpty =>
        /\ Len(scale) = 1 <=> RoiNarrower < 300
        /\ Len(scale) = 1 =>
              /\ scale[1] >= 1
              /\ scale[1] * RoiNarrower >= 300
              /\ (scale[1] - 1) * RoiNarrower < 300

\* What the code does: the ROI is upsampled exactly when its width is below
\* 300 px, by a factor that brings the width above 300.
C27_WidthBroughtAbove300 ==
    RoiNotEmpty =>
        LET cols == RoiShape(crop.img.w, crop.img.h).cols
        IN  /\ Len(scale) = 1 <=> cols < 300
            /\ Len(scale) = 1 =>
                  /\ scale[1] * cols > 300
                  /\ (scale[1] - 1) * cols <= 300

\* C28: the rescaled minimum area is local to one call of the detection: in
\* a job of several pages the detection of every page starts from the
\* min_area of the caller, so that the correction computed for one page
\* changes the threshold of no other page, and the min_area of the caller is
\* the same after the call.
C28_CorrectionIsLocal ==
    /\ []((pc \in {"page", "respond", "done"} /\ Len(pages) > 0) =>
             /\ det.min_area = request.min_area
             /\ det.page_img = pages[Len(pages)]
             /\ pages[Len(pages)].decoded =>
                   adaptive_min_area =
                      AdaptiveMinArea(request.min_area, pages[Len(pages)].w,
                                      pages[Len(pages)].h)
             /\ PdfJob => \A p \in 1..Len(pages) :
                              RecordsOfPage(p) = ExpectedOfPage(p))
    /\ [][request' = request]_vars

\* The min_area of 50000 was corrected to 5000 for the first page, of
\* 400x250 with three regions of about 10000, and the second page, of
\* 1000x1000, is detected with 50000 again: its region of 10000 is left out
\* and the one of 60000 is kept.
C28_Witness ==
    /\ PdfJob
    /\ pc = "page"
    /\ request.min_area = 50000
    /\ Len(pages) = 2
    /\ pages[1].w * pages[1].h = 100000
    /\ Len(RecordsOfPage(1)) = 3
    /\ pages[2].w * pages[2].h = 1000000
    /\ Len(pages[2].contours) = 2
    /\ Len(RecordsOfPage(2)) = 1
    /\ adaptive_min_area = 50000

\* C29: the correction never makes the detection less sensitive than the
\* caller asked for: for every image size and every min_area, the small
\* grid values 3000 to 5000 included, the effective minimum area is at most
\* the min_area of the caller.
C29_NeverLessSensitive ==
    (pc = "return" /\ DEPENDENCIES_OK /\ det.page_img.decoded) =>
        adaptive_min_area <= det.min_area

\* The same for a min_area of 5000 or more, where it holds.
C29_HoldsFrom5000 ==
    (pc = "return" /\ DEPENDENCIES_OK /\ det.page_img.decoded
        /\ det.min_area >= 5000) =>
        adaptive_min_area <= det.min_area

(***************************************************************************)
(* Claims about the fallback identifiers                                   *)
(***************************************************************************)
\* Page and region indexes, of one, two and three digits.
WideIdxs == {1, 2, 9, 10, 11, 12, 99, 100, 101, 110, 111, 123}

\* The records of the job that carry a fallback identifier: their
\* documento_id is no number.
FallbackRecords ==
    { i \in 1..Len(extracted_comprobantes) :
        ~IsDigits(extracted_comprobantes[i].documento_id) }

\* C30: fallback identifiers never collide: two regions of a job that both
\* get one get different ones when they differ in page or in region index,
\* for indexes of 100 and more as well; a fallback identifier is never equal
\* to a document number read by OCR; and so the crop saved under a fallback
\* file name is never overwritten by another crop of the session.
C30_FallbackIdsDistinct ==
    (pc \in {"page", "respond"} \/ Answered) =>
        /\ \A i \in FallbackRecords :
               LET r == extracted_comprobantes[i]
               IN  /\ r.documento_id = FallbackId(PageOf(r), r.id)
                   /\ \A j \in 1..Len(extracted_comprobantes) :
                          j # i => extracted_comprobantes[j].documento_id
                                       # r.documento_id
                   /\ \A p, c \in WideIdxs :
                          <<p, c>> # <<PageOf(r), r.id>> =>
                              FallbackId(p, c) # r.documento_id
                   /\ r.filename \in DOMAIN files
                   /\ files[r.filename] = CropOf(r)
        /\ \A p, c \in WideIdxs :
               /\ ~IsDigits(FallbackId(p, c))
               /\ \A j \in 1..Len(extracted_comprobantes) :
                      j \notin FallbackRecords =>
                          extracted_comprobantes[j].documento_id # FallbackId(p, c)

\* A pdf of three pages has been answered with three fallback identifiers,
\* two of them for the third region of their page, and each has its file.
C30_Witness ==
    /\ PdfJob
    /\ pc = "done"
    /\ response.status = 200
    /\ Len(pages) = 3
    /\ Cardinality(FallbackRecords) = 3
    /\ \E i, j \in FallbackRecords :
           /\ extracted_comprobantes[i].id = 3 /\ extracted_comprobantes[i].page = 1
           /\ extracted_comprobantes[j].id = 3 /\ extracted_comprobantes[j].page = 2
    /\ Cardinality({ extracted_comprobantes[i].filename : i \in FallbackRecords }) = 3
    /\ Cardinality(DOMAIN files) = 5

=============================================================================
